---- MODULE Spec2Model ----
(***************************************************************************)
(* Rubik's cube model (Cube, cube.cpp / cube.h) and the two-phase solver   *)
(* (Solver::solve, solver.cpp) of david-strejc/rubcs.                      *)
(*                                                                         *)
(* C++ arrays are modelled as functions over 0..n-1 so that the source's   *)
(* indices can be used unchanged.                                          *)
(***************************************************************************)
EXTENDS Integers, Sequences, FiniteSets, TLC

VARIABLES
    cube,        \* the caller's Cube::state_
    nmoves,      \* moves the caller has applied (bounds the scramble)
    nset,        \* setState calls made
    solves,      \* solve calls made
    cancel,      \* the caller's std::atomic_bool
    nodes,       \* SolverProgress::nodes
    depth,       \* SolverProgress::depth
    tablesBuilt, \* g_tablesOnce has run Tables::init
    pc,          \* position of the solving thread
    start,       \* solve: CubieCube start
    d1,          \* solve: loop variable d1
    cc,          \* solve: CubieCube cc, shared by the searchPhase1 frames
    path1,       \* solve: path1
    d2,          \* searchPhase1 leaf: loop variable d2
    path2,       \* searchPhase1 leaf: path2
    stack2,      \* searchPhase2 frames: <<cp, ep, sp>> of each frame
    outPhase2,   \* solve: path2 (outPhase2 of searchPhase1)
    result,      \* value returned by solve
    prev,        \* facelet array and result of the last uncancelled solve
    probe,       \* last call of a coordinate decoder and encoder
    onceFlag,    \* g_tablesOnce, as the racing threads see it
    initRuns,    \* executions of Tables::init started
    written,     \* table-filling stages of Tables::init completed
    tpc,         \* position of each racing thread in solve
    moveQueue_,       \* Renderer: moves waiting to be animated
    currentAnim_,     \* Renderer: the move being animated, kNoAnim if none
    solveFuture_,     \* Renderer: "invalid", or "valid" from std::async on
    solveStartState_, \* Renderer: facelet array the solve was started on
    nkeys             \* move keys handled so far

vars == <<cube, nmoves, nset, solves, cancel, nodes, depth, tablesBuilt, pc,
          start, d1, cc, path1, d2, path2, stack2, outPhase2, result,
          prev, probe, onceFlag, initRuns, written, tpc,
          moveQueue_, currentAnim_, solveFuture_, solveStartState_, nkeys>>

callerVars == <<cube, nmoves, nset>>
onceVars   == <<onceFlag, initRuns, written, tpc>>
searchVars == <<start, d1, cc, path1, d2, path2, stack2, outPhase2>>
viewVars   == <<moveQueue_, currentAnim_, solveFuture_, solveStartState_,
                nkeys>>


(***************************************************************************)
(* cube.h: enums                                                           *)
(***************************************************************************)
White  == 0
Yellow == 1
Red    == 2
Orange == 3
Green  == 4
Blue   == 5
Colors == 0..5

FACE_U == 0
FACE_D == 1
FACE_L == 2
FACE_R == 3
FACE_F == 4
FACE_B == 5

kNumMoves == 18
Moves == 0..(kNumMoves - 1)

\* #define I(face, pos) ((face) * 9 + (pos))
I(face, pos) == face * 9 + pos

\* Forces a function value into an explicit table.
Eager(f) == f @@ f

(***************************************************************************)
(* Cube::reset                                                             *)
(***************************************************************************)
kFaceColor == <<White, Yellow, Green, Blue, Red, Orange>>

ResetState == Eager([i \in 0..53 |-> kFaceColor[(i \div 9) + 1]])

(***************************************************************************)
(* Cube::rotateFaceCW, Cube::cycle4, Cube::applyMove                       *)
(***************************************************************************)
rotateFaceCCW(s, face) ==
    LET b == face * 9
    IN  [s EXCEPT ![b + 6] = s[b + 0], ![b + 8] = s[b + 6],
                  ![b + 2] = s[b + 8], ![b + 0] = s[b + 2],
                  ![b + 3] = s[b + 1], ![b + 7] = s[b + 3],
                  ![b + 5] = s[b + 7], ![b + 1] = s[b + 5]]

rotateFaceCW(s, face) ==
    LET b == face * 9
    IN  [s EXCEPT ![b + 0] = s[b + 6], ![b + 6] = s[b + 8],
                  ![b + 8] = s[b + 2], ![b + 2] = s[b + 0],
                  ![b + 1] = s[b + 3], ![b + 3] = s[b + 7],
                  ![b + 7] = s[b + 5], ![b + 5] = s[b + 1]]

cycle4NoTmp(s, a, b, c, d) ==
    [s EXCEPT ![d] = s[c], ![c] = s[b], ![b] = s[a], ![a] = s[c]]

cycle4Backwards(s, a, b, c, d) ==
    [s EXCEPT ![a] = s[b], ![b] = s[c], ![c] = s[d], ![d] = s[a]]

cycle4(s, a, b, c, d) ==
    [s EXCEPT ![d] = s[c], ![c] = s[b], ![b] = s[a], ![a] = s[d]]

\* The clockwise quarter turn of one face: the case bodies of Move::U,
\* Move::D, Move::L, Move::R, Move::F and Move::B.
turnCW(s, face) ==
    LET r == rotateFaceCW(s, face)
    IN  CASE face = FACE_U ->
               cycle4(cycle4(cycle4(r,
                   I(FACE_F,0), I(FACE_L,0), I(FACE_B,0), I(FACE_R,0)),
                   I(FACE_F,1), I(FACE_L,1), I(FACE_B,1), I(FACE_R,1)),
                   I(FACE_F,2), I(FACE_L,2), I(FACE_B,2), I(FACE_R,2))
          [] face = FACE_D ->
               cycle4(cycle4(cycle4(r,
                   I(FACE_F,6), I(FACE_R,6), I(FACE_B,6), I(FACE_L,6)),
                   I(FACE_F,7), I(FACE_R,7), I(FACE_B,7), I(FACE_L,7)),
                   I(FACE_F,8), I(FACE_R,8), I(FACE_B,8), I(FACE_L,8))
          [] face = FACE_L ->
               cycle4(cycle4(cycle4(r,
                   I(FACE_U,0), I(FACE_F,0), I(FACE_D,0), I(FACE_B,8)),
                   I(FACE_U,3), I(FACE_F,3), I(FACE_D,3), I(FACE_B,5)),
                   I(FACE_U,6), I(FACE_F,6), I(FACE_D,6), I(FACE_B,2))
          [] face = FACE_R ->
               cycle4(cycle4(cycle4(r,
                   I(FACE_U,2), I(FACE_B,6), I(FACE_D,2), I(FACE_F,2)),
                   I(FACE_U,5), I(FACE_B,3), I(FACE_D,5), I(FACE_F,5)),
                   I(FACE_U,8), I(FACE_B,0), I(FACE_D,8), I(FACE_F,8))
          [] face = FACE_F ->
               cycle4(cycle4(cycle4(r,
                   I(FACE_U,6), I(FACE_R,0), I(FACE_D,2), I(FACE_L,8)),
                   I(FACE_U,7), I(FACE_R,3), I(FACE_D,1), I(FACE_L,5)),
                   I(FACE_U,8), I(FACE_R,6), I(FACE_D,0), I(FACE_L,2))
          [] face = FACE_B ->
               cycle4(cycle4(cycle4(r,
                   I(FACE_U,2), I(FACE_L,0), I(FACE_D,6), I(FACE_R,8)),
                   I(FACE_U,1), I(FACE_L,3), I(FACE_D,7), I(FACE_R,5)),
                   I(FACE_U,0), I(FACE_L,6), I(FACE_D,8), I(FACE_R,2))

applyMoveHalfAsPrime(s, m) ==
    LET face == m \div 3
        kind == m % 3
    IN  IF kind = 0 THEN turnCW(s, face)
        ELSE turnCW(turnCW(turnCW(s, face), face), face)

\* Move index = face * 3 + kind; kind 0 is the clockwise turn, kind 1 (the
\* primed move) is three clockwise turns, kind 2 (the half turn) is two.
applyMove(s, m) ==
    LET face == m \div 3
        kind == m % 3
    IN  IF kind = 0 THEN turnCW(s, face)
        ELSE IF kind = 1 THEN turnCW(turnCW(turnCW(s, face), face), face)
        ELSE turnCW(turnCW(s, face), face)

RECURSIVE applyMoves(_, _)
applyMoves(s, seq) ==
    IF seq = << >> THEN s ELSE applyMoves(applyMove(s, Head(seq)), Tail(seq))

(***************************************************************************)
(* Cube::faceletIndexFor and the geometric reference model of the tests    *)
(***************************************************************************)
\* Position on its face of the sticker of face `face` on the cubie at
\* <<x, y, z>>; -1 when that cubie has no sticker on the face.
faceletIndexFor(face, x, y, z) ==
    LET onFace == CASE face = FACE_U -> y = 1
                    [] face = FACE_D -> y = -1
                    [] face = FACE_L -> x = -1
                    [] face = FACE_R -> x = 1
                    [] face = FACE_F -> z = 1
                    [] face = FACE_B -> z = -1
                    [] OTHER -> FALSE
        row == CASE face = FACE_U -> z + 1
                 [] face = FACE_D -> 1 - z
                 [] OTHER -> 1 - y
        col == CASE face = FACE_U -> x + 1
                 [] face = FACE_D -> x + 1
                 [] face = FACE_L -> z + 1
                 [] face = FACE_R -> 1 - z
                 [] face = FACE_F -> x + 1
                 [] OTHER -> 1 - x
    IN  IF ~onFace THEN -1
        ELSE IF row < 0 \/ row > 2 \/ col < 0 \/ col > 2 THEN -1
        ELSE row * 3 + col

\* A vector is <<x, y, z>>.
dirToVec(dir) ==
    CASE dir = FACE_U -> <<0, 1, 0>>
      [] dir = FACE_D -> <<0, -1, 0>>
      [] dir = FACE_L -> <<-1, 0, 0>>
      [] dir = FACE_R -> <<1, 0, 0>>
      [] dir = FACE_F -> <<0, 0, 1>>
      [] dir = FACE_B -> <<0, 0, -1>>
      [] OTHER -> <<0, 0, 0>>

vecToDir(v) ==
    CASE v = <<0, 1, 0>> -> FACE_U
      [] v = <<0, -1, 0>> -> FACE_D
      [] v = <<-1, 0, 0>> -> FACE_L
      [] v = <<1, 0, 0>> -> FACE_R
      [] v = <<0, 0, 1>> -> FACE_F
      [] v = <<0, 0, -1>> -> FACE_B
      [] OTHER -> -1

rotate90(v, axis, sign) ==
    IF sign # 1 /\ sign # -1 THEN v
    ELSE CASE axis = 0 -> IF sign > 0 THEN <<v[1], -v[3], v[2]>>
                          ELSE <<v[1], v[3], -v[2]>>
           [] axis = 1 -> IF sign > 0 THEN <<v[3], v[2], -v[1]>>
                          ELSE <<-v[3], v[2], v[1]>>
           [] axis = 2 -> IF sign > 0 THEN <<-v[2], v[1], v[3]>>
                          ELSE <<v[2], -v[1], v[3]>>
           [] OTHER -> v

\* The loop of rotateSticker, with n quarter turns left to make.
RECURSIVE rotateLoop(_, _, _, _)
rotateLoop(loc, axis, sign, n) ==
    IF n = 0 THEN loc
    ELSE rotateLoop([pos |-> rotate90(loc.pos, axis, sign),
                     dir |-> vecToDir(rotate90(dirToVec(loc.dir), axis, sign))],
                    axis, sign, n - 1)

rotateSticker(loc, axis, turns) ==
    IF turns = 0 THEN loc
    ELSE rotateLoop(loc, axis, IF turns > 0 THEN 1 ELSE -1,
                    IF turns > 0 THEN turns ELSE -turns)

indexToLoc(globalIndex) ==
    LET face == globalIndex \div 9
        row  == (globalIndex % 9) \div 3
        col  == (globalIndex % 9) % 3
    IN  [dir |-> face,
         pos |-> CASE face = FACE_U -> <<col - 1, 1, row - 1>>
                   [] face = FACE_D -> <<col - 1, -1, 1 - row>>
                   [] face = FACE_L -> <<-1, 1 - row, col - 1>>
                   [] face = FACE_R -> <<1, 1 - row, 1 - col>>
                   [] face = FACE_F -> <<col - 1, 1 - row, 1>>
                   [] OTHER -> <<1 - col, 1 - row, -1>>]

locToIndex(loc) ==
    LET pos == faceletIndexFor(loc.dir, loc.pos[1], loc.pos[2], loc.pos[3])
    IN  IF pos < 0 THEN -1 ELSE loc.dir * 9 + pos

kAxis    == <<1, 1, 0, 0, 2, 2>>
kLayer   == <<1, -1, -1, 1, 1, -1>>
kCwTurns == <<-1, 1, 1, -1, -1, 1>>

\* moveToAxisLayerTurns: <<axis, layer, turns>> of a move
moveToAxisLayerTurns(m) ==
    LET face == m \div 3
        type == m % 3
        cw   == kCwTurns[face + 1]
    IN  <<kAxis[face + 1], kLayer[face + 1],
          IF type = 0 THEN cw ELSE IF type = 1 THEN -cw ELSE 2>>

\* The index j to which applyMovePhysical sends the sticker at index i.
physicalTarget(m, i) ==
    LET alt == moveToAxisLayerTurns(m)
        loc == indexToLoc(i)
    IN  locToIndex(IF loc.pos[alt[1] + 1] = alt[2]
                   THEN rotateSticker(loc, alt[1], alt[3])
                   ELSE loc)

\* For each move and each index j, the indices i whose sticker the loop of
\* applyMovePhysical writes to out[j].
physicalSources ==
    Eager([m \in Moves |->
        Eager([j \in 0..53 |-> {i \in 0..53 : physicalTarget(m, i) = j}])])

\* applyMovePhysical: out starts value-initialised (Color 0) and receives
\* out[j] = in[i] for i = 0..53 in turn, the last write standing.
applyMovePhysical(in, m) ==
    [j \in 0..53 |->
        IF physicalSources[m][j] = {} THEN White
        ELSE in[CHOOSE i \in physicalSources[m][j] :
                    \A k \in physicalSources[m][j] : k <= i]]

(***************************************************************************)
(* Cube::isSolved                                                          *)
(***************************************************************************)
isSolved(s) ==
    \A f \in 0..5 : \A i \in 0..8 : s[f * 9 + i] = s[f * 9 + 4]

(***************************************************************************)
(* Cubie tables of cube.cpp                                                *)
(***************************************************************************)
cornerFacelets ==
    << <<I(FACE_U,8), I(FACE_R,0), I(FACE_F,2)>>,
       <<I(FACE_U,6), I(FACE_F,0), I(FACE_L,2)>>,
       <<I(FACE_U,0), I(FACE_L,0), I(FACE_B,2)>>,
       <<I(FACE_U,2), I(FACE_B,0), I(FACE_R,2)>>,
       <<I(FACE_D,2), I(FACE_F,8), I(FACE_R,6)>>,
       <<I(FACE_D,0), I(FACE_L,8), I(FACE_F,6)>>,
       <<I(FACE_D,6), I(FACE_B,8), I(FACE_L,6)>>,
       <<I(FACE_D,8), I(FACE_R,8), I(FACE_B,6)>> >>

cornerColors ==
    << <<White,  Blue,   Red>>,
       <<White,  Red,    Green>>,
       <<White,  Green,  Orange>>,
       <<White,  Orange, Blue>>,
       <<Yellow, Red,    Blue>>,
       <<Yellow, Green,  Red>>,
       <<Yellow, Orange, Green>>,
       <<Yellow, Blue,   Orange>> >>

edgeFacelets ==
    << <<I(FACE_U,5), I(FACE_R,1)>>,
       <<I(FACE_U,7), I(FACE_F,1)>>,
       <<I(FACE_U,3), I(FACE_L,1)>>,
       <<I(FACE_U,1), I(FACE_B,1)>>,
       <<I(FACE_D,5), I(FACE_R,7)>>,
       <<I(FACE_D,1), I(FACE_F,7)>>,
       <<I(FACE_D,3), I(FACE_L,7)>>,
       <<I(FACE_D,7), I(FACE_B,7)>>,
       <<I(FACE_F,5), I(FACE_R,3)>>,
       <<I(FACE_F,3), I(FACE_L,5)>>,
       <<I(FACE_B,5), I(FACE_L,3)>>,
       <<I(FACE_B,3), I(FACE_R,5)>> >>

edgeColors ==
    << <<White,  Blue>>,
       <<White,  Red>>,
       <<White,  Green>>,
       <<White,  Orange>>,
       <<Yellow, Blue>>,
       <<Yellow, Red>>,
       <<Yellow, Green>>,
       <<Yellow, Orange>>,
       <<Red,    Blue>>,
       <<Red,    Green>>,
       <<Orange, Green>>,
       <<Orange, Blue>> >>

(***************************************************************************)
(* Cube::getCornerPermutation / getCornerOrientation /                     *)
(* getEdgePermutation / getEdgeOrientation                                 *)
(***************************************************************************)
CornerMatches(s, pos, c) ==
    LET c0 == s[cornerFacelets[pos + 1][1]]
        c1 == s[cornerFacelets[pos + 1][2]]
        c2 == s[cornerFacelets[pos + 1][3]]
        cs == cornerColors[c + 1]
    IN  /\ (c0 = cs[1] \/ c0 = cs[2] \/ c0 = cs[3])
        /\ (c1 = cs[1] \/ c1 = cs[2] \/ c1 = cs[3])
        /\ (c2 = cs[1] \/ c2 = cs[2] \/ c2 = cs[3])
        /\ c0 # c1 /\ c1 # c2 /\ c0 # c2

\* The loop `for (int c = 0; c < 8; c++)`, entered at c.
RECURSIVE firstCorner(_, _, _)
firstCorner(s, pos, c) ==
    IF c >= 8 THEN -1
    ELSE IF CornerMatches(s, pos, c) THEN c
    ELSE firstCorner(s, pos, c + 1)

getCornerPermutation(s, pos) == firstCorner(s, pos, 0)

getCornerOrientation(s, pos) ==
    LET c0 == s[cornerFacelets[pos + 1][1]]
        c1 == s[cornerFacelets[pos + 1][2]]
    IN  IF c0 = White \/ c0 = Yellow THEN 0
        ELSE IF c1 = White \/ c1 = Yellow THEN 1
        ELSE 2

EdgeMatches(s, pos, e) ==
    LET c0 == s[edgeFacelets[pos + 1][1]]
        c1 == s[edgeFacelets[pos + 1][2]]
        ec == edgeColors[e + 1]
    IN  \/ (c0 = ec[1] /\ c1 = ec[2])
        \/ (c0 = ec[2] /\ c1 = ec[1])

\* The loop `for (int e = 0; e < 12; e++)`, entered at e.
RECURSIVE firstEdge(_, _, _)
firstEdge(s, pos, e) ==
    IF e >= 12 THEN -1
    ELSE IF EdgeMatches(s, pos, e) THEN e
    ELSE firstEdge(s, pos, e + 1)

getEdgePermutation(s, pos) == firstEdge(s, pos, 0)

getEdgeOrientation(s, pos) ==
    LET c0 == s[edgeFacelets[pos + 1][1]]
        ep == getEdgePermutation(s, pos)
    IN  IF ep < 0 THEN 0
        ELSE IF c0 = edgeColors[ep + 1][1] THEN 0 ELSE 1

(***************************************************************************)
(* Cube::cornerOrientationCoord .. Cube::udSlicePermutationCoord           *)
(***************************************************************************)
cornerOrientationCoord(s) ==
    LET RECURSIVE loop(_, _)
        loop(i, coord) ==
            IF i >= 7 THEN coord
            ELSE loop(i + 1, coord * 3 + getCornerOrientation(s, i))
    IN  loop(0, 0)

edgeOrientationCoord(s) ==
    LET RECURSIVE loop(_, _)
        loop(i, coord) ==
            IF i >= 11 THEN coord
            ELSE loop(i + 1, coord * 2 + getEdgeOrientation(s, i))
    IN  loop(0, 0)

udSliceCoord(s) ==
    LET isSlice(i) == getEdgePermutation(s, i) >= 8
        \* res = res * (n - k + i) / i for i = 1..k
        RECURSIVE product(_, _, _, _)
        product(n, k, i, res) ==
            IF i > k THEN res
            ELSE product(n, k, i + 1, (res * (n - k + i)) \div i)
        \* the lambda `binom`
        binom(n, k) ==
            IF k < 0 \/ k > n THEN 0
            ELSE IF k = 0 \/ k = n THEN 1
            ELSE IF k > n - k THEN product(n, n - k, 1, 1)
            ELSE product(n, k, 1, 1)
        RECURSIVE loop(_, _, _)
        loop(i, k, coord) ==
            IF i < 0 THEN coord
            ELSE IF isSlice(i) THEN loop(i - 1, k - 1, coord)
            ELSE IF k > 0 THEN loop(i - 1, k, coord + binom(i, k))
            ELSE loop(i - 1, k, coord)
    IN  loop(11, 4, 0)

lehmerCoordGreater(perm, n) ==
    LET cnt(i) == Cardinality({j \in (i + 1)..(n - 1) : perm[j] > perm[i]})
        RECURSIVE fact(_)
        fact(top) == IF top < 1 THEN 1 ELSE top * fact(top - 1)
        RECURSIVE loop(_, _)
        loop(i, coord) ==
            IF i >= n THEN coord
            ELSE loop(i + 1, coord + cnt(i) * fact(n - 1 - i))
    IN  loop(0, 0)

\* The factorial-number-system loop shared by cornerPermutationCoord,
\* phase2EdgePermutationCoord and udSlicePermutationCoord: perm is an array
\* of n entries.
lehmerCoord(perm, n) ==
    LET cnt(i) == Cardinality({j \in (i + 1)..(n - 1) : perm[j] < perm[i]})
        \* for (k = 1; k <= top; k++) fact *= k
        RECURSIVE fact(_)
        fact(top) == IF top < 1 THEN 1 ELSE top * fact(top - 1)
        RECURSIVE loop(_, _)
        loop(i, coord) ==
            IF i >= n THEN coord
            ELSE loop(i + 1, coord + cnt(i) * fact(n - 1 - i))
    IN  loop(0, 0)

cornerPermutationCoord(s) ==
    lehmerCoord([i \in 0..7 |-> getCornerPermutation(s, i)], 8)

phase2EdgePermutationCoord(s) ==
    lehmerCoord([i \in 0..7 |-> getEdgePermutation(s, i)], 8)

udSlicePermutationCoord(s) ==
    lehmerCoord([i \in 0..3 |-> getEdgePermutation(s, i + 8) - 8], 4)

(***************************************************************************)
(* Cube::isSolvable                                                        *)
(***************************************************************************)
ColorCount(s, c) == Cardinality({i \in 0..53 : s[i] = c})

\* The lambda `parity`: number of inversions, low bit.
parity(p, n) ==
    Cardinality({ij \in (0..(n - 1)) \X (0..(n - 1)) :
                    ij[1] < ij[2] /\ p[ij[1]] > p[ij[2]]}) % 2

RECURSIVE SumUpTo(_, _)
SumUpTo(f, n) == IF n < 0 THEN 0 ELSE f[n] + SumUpTo(f, n - 1)

isSolvable(s) ==
    LET cornerPerm == Eager([i \in 0..7 |-> getCornerPermutation(s, i)])
        cornerOri  == Eager([i \in 0..7 |-> getCornerOrientation(s, i)])
        edgePerm   == Eager([i \in 0..11 |-> getEdgePermutation(s, i)])
        edgeOri    == Eager([i \in 0..11 |-> getEdgeOrientation(s, i)])
    IN  /\ \A i \in 0..53 : s[i] \in Colors
        /\ \A c \in Colors : ColorCount(s, c) = 9
        /\ \A i \in 0..7 : cornerPerm[i] >= 0 /\ cornerPerm[i] < 8
        /\ \A i \in 0..7 : cornerOri[i] >= 0 /\ cornerOri[i] < 3
        /\ \A i, j \in 0..7 : i < j => cornerPerm[i] # cornerPerm[j]
        /\ SumUpTo(cornerOri, 7) % 3 = 0
        /\ \A i \in 0..11 : edgePerm[i] >= 0 /\ edgePerm[i] < 12
        /\ \A i \in 0..11 : edgeOri[i] = 0 \/ edgeOri[i] = 1
        /\ \A i, j \in 0..11 : i < j => edgePerm[i] # edgePerm[j]
        /\ SumUpTo(edgeOri, 11) % 2 = 0
        /\ parity(cornerPerm, 8) = parity(edgePerm, 12)


(***************************************************************************)
(* Cube::inverseMove                                                       *)
(***************************************************************************)
inverseMoveSame(m) == m

inverseMove(m) ==
    LET face == m \div 3
        type == m % 3
    IN  IF type = 0 THEN face * 3 + 1
        ELSE IF type = 1 THEN face * 3
        ELSE m

(***************************************************************************)
(* solver.cpp: constants                                                   *)
(***************************************************************************)
kNumPhase2Moves == 10
\* with the quarter turn B in the place of B2
kPhase2MovesWithB == <<0, 1, 2, 3, 4, 5, 8, 11, 14, 15>>

kPhase2Moves == <<0, 1, 2, 3, 4, 5, 8, 11, 14, 17>>

kCO    == 2187
kEO    == 2048
kSLICE == 495
kCP    == 40320
kEP    == 40320
kSP    == 24

kMaxPhase1 == 12
kMaxTotal  == 31

\* Pascal's triangle, as the initialiser of kBinom fills it (n <= 12, k <= 4).
RECURSIVE binomEntry(_, _)
binomEntry(n, k) ==
    IF k = 0 THEN 1
    ELSE IF k > n THEN 0
    ELSE IF k = n THEN 1
    ELSE binomEntry(n - 1, k - 1) + binomEntry(n - 1, k)

kBinom == Eager([n \in 0..12 |-> Eager([k \in 0..4 |-> binomEntry(n, k)])])

kFact8 == <<1, 1, 2, 6, 24, 120, 720, 5040, 40320>>
kFact4 == <<1, 1, 2, 6, 24>>

(***************************************************************************)
(* struct CubieCube, toCubie                                               *)
(***************************************************************************)
\* static_cast<uint8_t>
U8(x)  == x % 256
\* static_cast<uint16_t>
U16(x) == x % 65536

toCubie(s) ==
    [cp |-> Eager([i \in 0..7  |-> U8(getCornerPermutation(s, i))]),
     co |-> Eager([i \in 0..7  |-> U8(getCornerOrientation(s, i))]),
     ep |-> Eager([i \in 0..11 |-> U8(getEdgePermutation(s, i))]),
     eo |-> Eager([i \in 0..11 |-> U8(getEdgeOrientation(s, i))])]

(***************************************************************************)
(* Coordinate codec                                                        *)
(***************************************************************************)
\* for (i = from; i < 7; i++) coord = coord * 3 + (co[i] % 3)
RECURSIVE cornerOriLoop(_, _, _)
cornerOriLoop(co, i, coord) ==
    IF i >= 7 THEN coord ELSE cornerOriLoop(co, i + 1, coord * 3 + (co[i] % 3))

cornerOriCoord(co) == cornerOriLoop(co, 0, 0)

cornerOriFromCoord(coord) ==
    LET digit(i) == (coord \div (3 ^ (6 - i))) % 3
        sum == digit(0) + digit(1) + digit(2) + digit(3)
                 + digit(4) + digit(5) + digit(6)
    IN  Eager([i \in 0..7 |-> IF i < 7 THEN digit(i) ELSE (3 - (sum % 3)) % 3])

\* for (i = from; i < 11; i++) coord = coord * 2 + (eo[i] & 1)
RECURSIVE edgeOriLoop(_, _, _)
edgeOriLoop(eo, i, coord) ==
    IF i >= 11 THEN coord ELSE edgeOriLoop(eo, i + 1, coord * 2 + (eo[i] % 2))

edgeOriCoord(eo) == edgeOriLoop(eo, 0, 0)

edgeOriFromCoordNoParity(coord) ==
    LET bit(i) == (coord \div (2 ^ (10 - i))) % 2
    IN  Eager([i \in 0..11 |-> IF i < 11 THEN bit(i) ELSE 0])

edgeOriFromCoord(coord) ==
    LET bit(i) == (coord \div (2 ^ (10 - i))) % 2
        sum == (bit(0) + bit(1) + bit(2) + bit(3) + bit(4) + bit(5)
                 + bit(6) + bit(7) + bit(8) + bit(9) + bit(10)) % 2
    IN  Eager([i \in 0..11 |-> IF i < 11 THEN bit(i) ELSE sum])

\* The loop of sliceCoord, entered at position i with k slice edges still
\* to be seen.
RECURSIVE sliceLoop(_, _, _, _)
sliceLoop(ep, i, k, coord) ==
    IF i < 0 THEN coord
    ELSE IF ep[i] >= 8 THEN sliceLoop(ep, i - 1, k - 1, coord)
    ELSE IF k > 0 THEN sliceLoop(ep, i - 1, k, coord + kBinom[i][k])
    ELSE sliceLoop(ep, i - 1, k, coord)

sliceCoord(ep) == sliceLoop(ep, 11, 4, 0)

\* First loop of sliceFromCoord: the set of positions marked isSlicePos.
RECURSIVE slicePosLoop(_, _, _, _)
slicePosLoop(i, k, coord, acc) ==
    IF i < 0 THEN acc
    ELSE IF k = 0 THEN slicePosLoop(i - 1, k, coord, acc)
    ELSE IF coord >= kBinom[i][k]
         THEN slicePosLoop(i - 1, k, coord - kBinom[i][k], acc)
         ELSE slicePosLoop(i - 1, k - 1, coord, acc \cup {i})

sliceFromCoord(coord) ==
    LET isSlicePos == slicePosLoop(11, 4, coord, {})
        before(i, b) == Cardinality({j \in 0..(i - 1) : (j \in isSlicePos) = b})
    IN  Eager([i \in 0..11 |->
            IF i \in isSlicePos THEN U8(8 + before(i, TRUE))
            ELSE U8(before(i, FALSE))])

\* perm8Coord / perm4Coord: p is an array of n entries.
permCoord(p, n, fact) ==
    LET cnt(i) == Cardinality({j \in (i + 1)..(n - 1) : p[j] < p[i]})
        RECURSIVE sumFrom(_)
        sumFrom(i) == IF i >= n THEN 0
                      ELSE cnt(i) * fact[(n - 1 - i) + 1] + sumFrom(i + 1)
    IN  sumFrom(0)

perm8Coord(p) == permCoord(p, 8, kFact8)
perm4Coord(p) == permCoord(p, 4, kFact4)

\* perm8FromCoord / perm4FromCoord: elems is the shrinking list.
RECURSIVE permFromLoop(_, _, _, _)
permFromLoop(coord, elems, fact, acc) ==
    IF elems = << >> THEN acc
    ELSE LET remaining == Len(elems)
             f   == fact[(remaining - 1) + 1]
             idx == coord \div f
         IN  permFromLoop(coord % f,
                 SubSeq(elems, 1, idx) \o SubSeq(elems, idx + 2, remaining),
                 fact, Append(acc, elems[idx + 1]))

perm8FromCoord(coord) ==
    LET p == permFromLoop(coord, <<0, 1, 2, 3, 4, 5, 6, 7>>, kFact8, << >>)
    IN  Eager([i \in 0..7 |-> p[i + 1]])

perm4FromCoord(coord) ==
    LET p == permFromLoop(coord, <<0, 1, 2, 3>>, kFact4, << >>)
    IN  Eager([i \in 0..3 |-> p[i + 1]])

edgePermCoord8_fromEp(ep) == perm8Coord(ep)

slicePermCoord_fromEp(ep) ==
    perm4Coord([i \in 0..3 |-> U8(ep[8 + i] - 8)])

(***************************************************************************)
(* struct Tables: move records, Tables::applyMove                          *)
(***************************************************************************)
\* `solved` of Tables::init
solvedCubie == toCubie(ResetState)

\* cPos / cOri / ePos / eOri, one record per move (first loop of init)
moveRec == Eager([m \in Moves |-> toCubie(applyMove(ResetState, m))])

invMove == Eager([m \in Moves |-> inverseMove(m)])

\* Tables::applyMove adding the turn to the orientation the position had
applyRecordOwnOri(c, mv) ==
    [cp |-> Eager([i \in 0..7  |-> c.cp[mv.cp[i]]]),
     co |-> Eager([i \in 0..7  |-> U8((c.co[i] + mv.co[i]) % 3)]),
     ep |-> Eager([i \in 0..11 |-> c.ep[mv.ep[i]]]),
     eo |-> Eager([i \in 0..11 |-> U8((c.eo[i] + mv.eo[i]) % 2)])]

\* the body of Tables::applyMove for the move record mv
applyRecord(c, mv) ==
    [cp |-> Eager([i \in 0..7  |-> c.cp[mv.cp[i]]]),
     co |-> Eager([i \in 0..7  |-> U8((c.co[mv.cp[i]] + mv.co[i]) % 3)]),
     ep |-> Eager([i \in 0..11 |-> c.ep[mv.ep[i]]]),
     eo |-> Eager([i \in 0..11 |-> U8((c.eo[mv.ep[i]] + mv.eo[i]) % 2)])]

Tables_applyMove(c, move) == applyRecord(c, moveRec[move])

(***************************************************************************)
(* Transition tables (Tables::init), one cell at a time                    *)
(***************************************************************************)
coMove(co, m) ==
    U16(cornerOriCoord(
        Tables_applyMove([solvedCubie EXCEPT !.co = cornerOriFromCoord(co)], m).co))

eoMove(eo, m) ==
    U16(edgeOriCoord(
        Tables_applyMove([solvedCubie EXCEPT !.eo = edgeOriFromCoord(eo)], m).eo))

sliceMove(sl, m) ==
    U16(sliceCoord(
        Tables_applyMove([solvedCubie EXCEPT !.ep = sliceFromCoord(sl)], m).ep))

cpMove(cp, mi) ==
    U16(perm8Coord(
        Tables_applyMove([solvedCubie EXCEPT !.cp = perm8FromCoord(cp)],
                         kPhase2Moves[mi + 1]).cp))

epMove(ep, mi) ==
    LET perm == perm8FromCoord(ep)
        cubie == [solvedCubie EXCEPT
                    !.ep = [i \in 0..11 |-> IF i < 8 THEN perm[i] ELSE U8(i)]]
    IN  U16(perm8Coord(Tables_applyMove(cubie, kPhase2Moves[mi + 1]).ep))

spMove(sp, mi) ==
    LET p4 == perm4FromCoord(sp)
        cubie == [solvedCubie EXCEPT
                  !.ep = [i \in 0..11 |-> IF i < 8 THEN U8(i) ELSE U8(8 + p4[i - 8])]]
        t  == Tables_applyMove(cubie, kPhase2Moves[mi + 1])
    IN  U8(perm4Coord([i \in 0..3 |-> U8(t.ep[8 + i] - 8)]))

(***************************************************************************)
(* Tables::init, pruning tables (buildPrunePhase1, buildPrunePhase2).      *)
(* The breadth-first fill is carried to the levels MaxDepth1 and MaxDepth2: *)
(* the cells of value <= MaxDepth are exactly the cells of these levels,   *)
(* every other cell of a table holds a larger value (or kUnvisited).       *)
(***************************************************************************)
MaxDepth1 == 4
MaxDepth2 == 2

kUnvisited == 255

\* The phase-1 move tables as Tables::init fills them: [2187][18],
\* [2048][18] and [495][18].
coMoveTable ==
    Eager([co \in 0..(kCO - 1) |-> Eager([m \in Moves |-> coMove(co, m)])])

eoMoveTable ==
    Eager([eo \in 0..(kEO - 1) |-> Eager([m \in Moves |-> eoMove(eo, m)])])

sliceMoveTable ==
    Eager([sl \in 0..(kSLICE - 1) |->
              Eager([m \in Moves |-> sliceMove(sl, m)])])

\* nidx = na * sizeB + nb, for every idx of a BFS level and every move.  A
\* cell past the end of the vector is not expanded: what the fill reads
\* and writes there is the undefined behaviour of pruneAt.
coSliceNext(S) ==
    {coMoveTable[idx \div kSLICE][m] * kSLICE
         + sliceMoveTable[idx % kSLICE][m] :
        idx \in {i \in S : i < kCO * kSLICE}, m \in Moves}

eoSliceNext(S) ==
    {eoMoveTable[idx \div kSLICE][m] * kSLICE
         + sliceMoveTable[idx % kSLICE][m] :
        idx \in {i \in S : i < kEO * kSLICE}, m \in Moves}

cpSpNext(S) ==
    {cpMove(idx \div kSP, mi) * kSP + spMove(idx % kSP, mi) :
        idx \in S, mi \in 0..(kNumPhase2Moves - 1)}

epSpNext(S) ==
    {epMove(idx \div kSP, mi) * kSP + spMove(idx % kSP, mi) :
        idx \in S, mi \in 0..(kNumPhase2Moves - 1)}

\* Level d: the cells that receive the value d.  levels holds the levels
\* filled so far, seen the cells written so far.
RECURSIVE coSliceLevel(_, _)
coSliceLevel(levels, seen) ==
    IF Len(levels) > MaxDepth1 THEN levels
    ELSE LET nxt == coSliceNext(levels[Len(levels)]) \ seen
         IN  coSliceLevel(Append(levels, nxt), seen \cup nxt)

RECURSIVE eoSliceLevel(_, _)
eoSliceLevel(levels, seen) ==
    IF Len(levels) > MaxDepth1 THEN levels
    ELSE LET nxt == eoSliceNext(levels[Len(levels)]) \ seen
         IN  eoSliceLevel(Append(levels, nxt), seen \cup nxt)

RECURSIVE cpSpLevel(_, _)
cpSpLevel(levels, seen) ==
    IF Len(levels) > MaxDepth2 THEN levels
    ELSE LET nxt == cpSpNext(levels[Len(levels)]) \ seen
         IN  cpSpLevel(Append(levels, nxt), seen \cup nxt)

RECURSIVE epSpLevel(_, _)
epSpLevel(levels, seen) ==
    IF Len(levels) > MaxDepth2 THEN levels
    ELSE LET nxt == epSpNext(levels[Len(levels)]) \ seen
         IN  epSpLevel(Append(levels, nxt), seen \cup nxt)

coSliceLevels ==
    LET filled == coSliceLevel(<<{0}>>, {0})
    IN  Eager([d \in 0..MaxDepth1 |-> filled[d + 1]])

eoSliceLevels ==
    LET filled == eoSliceLevel(<<{0}>>, {0})
    IN  Eager([d \in 0..MaxDepth1 |-> filled[d + 1]])

cpSpLevels ==
    LET filled == cpSpLevel(<<{0}>>, {0})
    IN  Eager([d \in 0..MaxDepth2 |-> filled[d + 1]])

epSpLevels ==
    LET filled == epSpLevel(<<{0}>>, {0})
    IN  Eager([d \in 0..MaxDepth2 |-> filled[d + 1]])

\* The table, as the sets of cells holding each value d <= radius.
tableOf(levels, radius) == [d \in 0..radius |-> levels[d]]

pruneCoSlice == tableOf(coSliceLevels, MaxDepth1)
pruneEoSlice == tableOf(eoSliceLevels, MaxDepth1)
pruneCpSp    == tableOf(cpSpLevels, MaxDepth2)
pruneEpSp    == tableOf(epSpLevels, MaxDepth2)

Bytes == 0..255

\* The values the read prune[idx] can yield under a search depth of
\* depthLeft, for a table of size bytes whose cells of value <= radius are
\* those of table[0..radius].  A read past the end of the vector yields
\* any byte.  A cell inside the vector that is not in table holds a value
\* above radius:
\* it is read as kUnvisited where that decides the comparison with
\* depthLeft, and the read is not taken otherwise.
pruneAt(table, size, idx, depthLeft, radius) ==
    IF idx >= size THEN Bytes
    ELSE IF \E d \in 0..radius : idx \in table[d]
         THEN {CHOOSE d \in 0..radius : idx \in table[d]}
    ELSE IF depthLeft <= radius THEN {kUnvisited}
    ELSE {}

(***************************************************************************)
(* moveAllowedPrune                                                        *)
(***************************************************************************)
moveAllowedPrune(move, lastMove) ==
    IF lastMove < 0 THEN TRUE
    ELSE LET face     == move \div 3
             lastFace == lastMove \div 3
         IN  /\ face # lastFace
             /\ ~(face \div 2 = lastFace \div 2 /\ face < lastFace)

\* First m >= from in 0..17 the phase-1 loop descends into; 18 if none.
RECURSIVE nextMove1(_, _)
nextMove1(from, lastMove) ==
    IF from >= kNumMoves THEN kNumMoves
    ELSE IF moveAllowedPrune(from, lastMove) THEN from
    ELSE nextMove1(from + 1, lastMove)

\* First mi >= from in 0..9 the phase-2 loop descends into; 10 if none.
RECURSIVE nextMove2(_, _)
nextMove2(from, lastMove) ==
    IF from >= kNumPhase2Moves THEN kNumPhase2Moves
    ELSE IF moveAllowedPrune(kPhase2Moves[from + 1], lastMove) THEN from
    ELSE nextMove2(from + 1, lastMove)

Last(seq)  == seq[Len(seq)]
Front(seq) == SubSeq(seq, 1, Len(seq) - 1)
lastOf(path) == IF path = << >> THEN -1 ELSE Last(path)

\* position of an absolute move in kPhase2Moves
phase2Index(move) == CHOOSE mi \in 0..(kNumPhase2Moves - 1) : kPhase2Moves[mi + 1] = move

(***************************************************************************)
(* State                                                                   *)
(***************************************************************************)
MaxMoves    == 2
MaxSetState == 1
MaxSolves   == 2

\* Outcomes of the random generator of Cube::scramble that are explored:
\* every single move, and R F; U R; U2 R2; R R'; L U' B' R.
ScrambleSeqs ==
    { <<m>> : m \in Moves }
        \cup { <<9, 12>>, <<0, 9>>, <<2, 11>>, <<9, 10>>, <<6, 1, 16, 9>> }

\* Pairs of facelets a caller of setState exchanges: U8-F0, R0-F2, U4-D4,
\* U1-U3, U0-U1.
SwapPairs == { <<8, 36>>, <<27, 38>>, <<4, 13>>, <<1, 3>>, <<0, 1>> }

\* No uncancelled solve has returned yet; no codec call has been made.
NoSolve == [cube |-> << >>, result |-> << >>]
NoProbe == [fn |-> "none", in |-> 0, arr |-> << >>, out |-> 0]

\* Threads that race the first call of Solver::solve.
NumThreads == 3
Threads == 1..NumThreads

\* static_cast<Move>(255): no move is being animated
kNoAnim == 255

Init ==
    /\ cube = ResetState
    /\ nmoves = 0
    /\ nset = 0
    /\ solves = 0
    /\ cancel = FALSE
    /\ nodes = 0
    /\ depth = 0
    /\ tablesBuilt = FALSE
    /\ pc = "idle"
    /\ start = solvedCubie
    /\ d1 = 0
    /\ cc = solvedCubie
    /\ path1 = << >>
    /\ d2 = 0
    /\ path2 = << >>
    /\ stack2 = << >>
    /\ outPhase2 = << >>
    /\ result = << >>
    /\ prev = NoSolve
    /\ probe = NoProbe
    /\ onceFlag = "unset"
    /\ initRuns = 0
    /\ written = 0
    /\ tpc = [t \in Threads |-> "start"]
    /\ moveQueue_ = << >>
    /\ currentAnim_ = kNoAnim
    /\ solveFuture_ = "invalid"
    /\ solveStartState_ = [i \in 0..53 |-> White]
    /\ nkeys = 0

(***************************************************************************)
(* The caller                                                              *)
(***************************************************************************)
\* Cube::reset
Reset ==
    /\ pc = "idle"
    /\ cube # ResetState
    /\ cube' = ResetState
    /\ UNCHANGED <<viewVars, prev, probe, onceVars,
                   nmoves, nset, solves, cancel, nodes, depth, tablesBuilt, pc,
                   start, d1, cc, path1, d2, path2, stack2, outPhase2, result>>

\* Cube::applyMove
ApplyMove(m) ==
    /\ pc = "idle"
    /\ nmoves < MaxMoves
    /\ cube' = applyMove(cube, m)
    /\ nmoves' = nmoves + 1
    /\ UNCHANGED <<viewVars, prev, probe, onceVars,
                   nset, solves, cancel, nodes, depth, tablesBuilt, pc,
                   start, d1, cc, path1, d2, path2, stack2, outPhase2, result>>

\* Cube::scramble, in the NDEBUG build (the assert of the debug build aborts
\* where this one resets).
Scramble(seq) ==
    /\ pc = "idle"
    /\ nmoves = 0
    /\ LET scrambled == applyMoves(cube, seq)
       IN  cube' = IF isSolvable(scrambled) THEN scrambled ELSE ResetState
    /\ nmoves' = MaxMoves
    /\ UNCHANGED <<viewVars, prev, probe, onceVars,
                   nset, solves, cancel, nodes, depth, tablesBuilt, pc,
                   start, d1, cc, path1, d2, path2, stack2, outPhase2, result>>

\* Cube::setState with the array obtained from the current one by
\* exchanging the facelets i and j.
swapFacelets(s, i, j) == [s EXCEPT ![i] = s[j], ![j] = s[i]]

SetState(i, j) ==
    /\ pc = "idle"
    /\ nset < MaxSetState
    /\ cube' = swapFacelets(cube, i, j)
    /\ nset' = nset + 1
    /\ UNCHANGED <<viewVars, prev, probe, onceVars,
                   nmoves, solves, cancel, nodes, depth, tablesBuilt, pc,
                   start, d1, cc, path1, d2, path2, stack2, outPhase2, result>>

\* cancel->store(true) by another thread
Cancel ==
    /\ pc # "done"
    /\ pc = "idle" => solves < MaxSolves
    /\ ~cancel
    /\ cancel' = TRUE
    /\ UNCHANGED <<viewVars, prev, probe, onceVars,
                   callerVars, solves, nodes, depth, tablesBuilt, pc,
                   searchVars, result>>

\* The caller takes the returned sequence and clears its flag.
Collect ==
    /\ pc = "done"
    /\ solves < MaxSolves
    /\ pc' = "idle"
    /\ cancel' = FALSE
    /\ result' = << >>
    /\ start' = solvedCubie
    /\ d1' = 0
    /\ cc' = solvedCubie
    /\ path1' = << >>
    /\ d2' = 0
    /\ path2' = << >>
    /\ stack2' = << >>
    /\ outPhase2' = << >>
    /\ UNCHANGED <<viewVars, prev, probe, onceVars,
                   callerVars, solves, nodes, depth, tablesBuilt>>

\* The caller takes the returned sequence, remembers it with the array it
\* was computed for, and clears its flag.
CollectKeep ==
    /\ pc = "done"
    /\ solves < MaxSolves
    /\ pc' = "idle"
    /\ cancel' = FALSE
    /\ result' = << >>
    /\ prev' = IF cancel THEN prev ELSE [cube |-> cube, result |-> result]
    /\ start' = solvedCubie
    /\ d1' = 0
    /\ cc' = solvedCubie
    /\ path1' = << >>
    /\ d2' = 0
    /\ path2' = << >>
    /\ stack2' = << >>
    /\ outPhase2' = << >>
    /\ UNCHANGED <<viewVars, probe, onceVars,
                   callerVars, solves, nodes, depth, tablesBuilt>>

(***************************************************************************)
(* Solver::solve                                                           *)
(***************************************************************************)
\* Lines 558-560: the three early returns of solve.
earlyExitNoGate(s, flag) == isSolved(s) \/ flag

earlyExitNoSolved(s, flag) == ~isSolvable(s) \/ flag

earlyExit(s, flag) == isSolved(s) \/ ~isSolvable(s) \/ flag

\* Lines 558-565: the early exits, then the progress stores of the table
\* build stage.
SolveEntry ==
    /\ pc = "idle"
    /\ solves < MaxSolves
    /\ solves' = solves + 1
    /\ IF earlyExit(cube, cancel)
       THEN /\ result' = << >>
            /\ pc' = "done"
            /\ UNCHANGED <<nodes, depth>>
       ELSE /\ nodes' = 0
            /\ depth' = -1
            /\ pc' = "tables"
            /\ UNCHANGED result
    /\ UNCHANGED <<viewVars, prev, probe, onceVars,
                   callerVars, cancel, tablesBuilt, searchVars>>

\* solve without the store of line 571.
SolveTablesNoStore ==
    /\ pc = "tables"
    /\ tablesBuilt' = TRUE
    /\ start' = toCubie(cube)
    /\ d1' = 0
    /\ pc' = "d1loop"
    /\ UNCHANGED <<viewVars, prev, probe, onceVars, depth,
                   callerVars, solves, cancel, nodes, cc, path1, d2, path2,
                   stack2, outPhase2, result>>

\* Lines 568-574: tables() (std::call_once), depth.store(0), toCubie.
SolveTables ==
    /\ pc = "tables"
    /\ tablesBuilt' = TRUE
    /\ depth' = 0
    /\ start' = toCubie(cube)
    /\ d1' = 0
    /\ pc' = "d1loop"
    /\ UNCHANGED <<viewVars, prev, probe, onceVars,
                   callerVars, solves, cancel, nodes, cc, path1, d2, path2,
                   stack2, outPhase2, result>>

\* the loop condition `d1 <= kMaxPhase1`, negated
phase1ExhaustedLate(d) == d > kMaxPhase1 + 1

phase1Exhausted(d) == d > kMaxPhase1

\* Lines 583-591: head of one iteration of the d1 loop, up to the call of
\* searchPhase1; line 600 when the loop is exhausted.
SolveD1 ==
    /\ pc = "d1loop"
    /\ IF phase1Exhausted(d1) \/ cancel
       THEN /\ result' = << >>
            /\ pc' = "done"
            /\ UNCHANGED <<depth, cc, path1, outPhase2>>
       ELSE /\ depth' = d1
            /\ path1' = << >>
            /\ outPhase2' = << >>
            /\ cc' = start
            /\ pc' = "p1node"
            /\ UNCHANGED result
    /\ UNCHANGED <<viewVars, prev, probe, onceVars,
                   callerVars, solves, cancel, nodes, tablesBuilt, start, d1,
                   d2, path2, stack2>>

(***************************************************************************)
(* searchPhase1                                                            *)
(***************************************************************************)
\* A searchPhase1 frame returns false: the frames above undo their move and
\* go on with their loops, up to the next call of searchPhase1 (root FALSE)
\* or until the outermost frame has returned to solve (root TRUE).
RECURSIVE return1(_, _)
\* the frame that made the move m at parent has its cubie back (undone) and
\* looks for the next move nm of its loop
resume1(undone, parent, nm) ==
    IF nm < kNumMoves
    THEN [root |-> FALSE, cc |-> Tables_applyMove(undone, nm),
          path1 |-> Append(parent, nm)]
    ELSE return1(undone, parent)

return1(c, p) ==
    IF p = << >> THEN [root |-> TRUE, cc |-> c, path1 |-> p]
    ELSE resume1(Tables_applyMove(c, invMove[Last(p)]), Front(p),
                 nextMove1(Last(p) + 1, lastOf(Front(p))))

Fail1 ==
    \E r \in {return1(cc, path1)} :
        /\ cc' = r.cc
        /\ path1' = r.path1
        /\ d1' = IF r.root THEN d1 + 1 ELSE d1
        /\ pc' = IF r.root THEN "d1loop" ELSE "p1node"

\* the test `depth == 0` of searchPhase1
isLeaf1(depthLeft) == depthLeft = 0

\* the test `h > depth`, for the values h1 and h2 the two reads can yield
pruned(h1, h2, depthLeft) == \E v \in h1 \cup h2 : v > depthLeft
passed(h1, h2, depthLeft) ==
    (\E v \in h1 : v <= depthLeft) /\ (\E v \in h2 : v <= depthLeft)

\* `if (cancel && cancel->load()) return false` at the entry of searchPhase1
poll1Never(flag) == FALSE

poll1(flag) == flag

\* What one invocation of searchPhase1 does after its cancel poll.
outcomes1(co, eo, sl, h1, h2, depthLeft) ==
    (IF pruned(h1, h2, depthLeft) THEN {"false"} ELSE {})
    \cup (IF ~passed(h1, h2, depthLeft) THEN {}
          ELSE IF isLeaf1(depthLeft)
               THEN IF ~(co = 0 /\ eo = 0 /\ sl = 0) THEN {"false"}
                    ELSE {"phase2"}
               ELSE {"descend"})

\* One invocation of searchPhase1, from its cancel poll to the next call.
Phase1Node ==
    /\ pc = "p1node"
    /\ \E depthLeft \in {d1 - Len(path1)},
          co \in {cornerOriCoord(cc.co)},
          eo \in {edgeOriCoord(cc.eo)},
          sl \in {sliceCoord(cc.ep)} :
         \E out \in IF poll1(cancel) THEN {"false"}
                    ELSE outcomes1(co, eo, sl,
                             pruneAt(pruneCoSlice, kCO * kSLICE,
                                     co * kSLICE + sl, depthLeft, MaxDepth1),
                             pruneAt(pruneEoSlice, kEO * kSLICE,
                                     eo * kSLICE + sl, depthLeft, MaxDepth1),
                             depthLeft) :
            /\ nodes' = IF poll1(cancel) THEN nodes ELSE nodes + 1
            /\ CASE out = "false" ->
                       Fail1 /\ UNCHANGED <<d2, path2, stack2>>
                 [] out = "phase2" ->
                       /\ d2' = 0
                       /\ path2' = << >>
                       /\ stack2' = << <<perm8Coord(cc.cp),
                                         edgePermCoord8_fromEp(cc.ep),
                                         slicePermCoord_fromEp(cc.ep)>> >>
                       /\ pc' = "p2node"
                       /\ UNCHANGED <<d1, cc, path1>>
                 [] out = "descend" ->
                       \E m \in {nextMove1(0, lastOf(path1))} :
                           /\ cc' = Tables_applyMove(cc, m)
                           /\ path1' = Append(path1, m)
                           /\ pc' = "p1node"
                           /\ UNCHANGED <<d1, d2, path2, stack2>>
    /\ UNCHANGED <<viewVars, prev, probe, onceVars,
                   callerVars, solves, cancel, depth, tablesBuilt, start,
                   outPhase2, result>>

(***************************************************************************)
(* searchPhase2                                                            *)
(***************************************************************************)
\* cpMove[cp][mi], epMove[ep][mi], spMove[sp][mi] of a frame <<cp, ep, sp>>
child2(top, mi) ==
    <<cpMove(top[1], mi), epMove(top[2], mi), spMove(top[3], mi)>>

\* A searchPhase2 frame returns false: up to the next call of searchPhase2
\* (root FALSE) or until the outermost frame has returned to the d2 loop.
RECURSIVE return2(_, _)
resume2(parent, pstk, nmi) ==
    IF nmi < kNumPhase2Moves
    THEN [root |-> FALSE,
          path2 |-> Append(parent, kPhase2Moves[nmi + 1]),
          stack2 |-> Append(pstk, child2(Last(pstk), nmi))]
    ELSE return2(parent, pstk)

return2(p, stk) ==
    IF p = << >> THEN [root |-> TRUE, path2 |-> p, stack2 |-> stk]
    ELSE resume2(Front(p), Front(stk),
                 nextMove2(phase2Index(Last(p)) + 1, lastOf(Front(p))))

Fail2 ==
    \E r \in {return2(path2, stack2)} :
        /\ path2' = r.path2
        /\ stack2' = r.stack2
        /\ pc' = IF r.root THEN "d2poll" ELSE "p2node"

\* the terminal test of searchPhase2 at depth 0
isGoal2(cp, ep, sp) == cp = 0 /\ ep = 0 /\ sp = 0

\* `if (cancel && cancel->load()) return false` at the entry of searchPhase2
poll2Never(flag) == FALSE

poll2(flag) == flag

\* What one invocation of searchPhase2 does after its cancel poll.
outcomes2(cp, ep, sp, h1, h2, depthLeft) ==
    (IF pruned(h1, h2, depthLeft) THEN {"false"} ELSE {})
    \cup (IF ~passed(h1, h2, depthLeft) THEN {}
          ELSE IF depthLeft = 0
               THEN IF isGoal2(cp, ep, sp) THEN {"true"} ELSE {"false"}
               ELSE {"descend"})

\* One invocation of searchPhase2, from its cancel poll to the next call.
Phase2Node ==
    /\ pc = "p2node"
    /\ \E depthLeft \in {d2 - Len(path2)}, top \in {Last(stack2)} :
         \E out \in IF poll2(cancel) THEN {"false"}
                    ELSE outcomes2(top[1], top[2], top[3],
                             pruneAt(pruneCpSp, kCP * kSP,
                                     top[1] * kSP + top[3], depthLeft,
                                     MaxDepth2),
                             pruneAt(pruneEpSp, kEP * kSP,
                                     top[2] * kSP + top[3], depthLeft,
                                     MaxDepth2),
                             depthLeft) :
            /\ nodes' = IF poll2(cancel) THEN nodes ELSE nodes + 1
            /\ CASE out = "false" -> Fail2 /\ UNCHANGED outPhase2
                 [] out = "true" ->
                       /\ outPhase2' = path2
                       /\ pc' = "found"
                       /\ UNCHANGED <<path2, stack2>>
                 [] out = "descend" ->
                       \E mi \in {nextMove2(0, lastOf(path2))} :
                           /\ path2' = Append(path2, kPhase2Moves[mi + 1])
                           /\ stack2' = Append(stack2, child2(top, mi))
                           /\ pc' = "p2node"
                           /\ UNCHANGED outPhase2
    /\ UNCHANGED <<viewVars, prev, probe, onceVars,
                   callerVars, solves, cancel, depth, tablesBuilt, start, d1,
                   cc, path1, d2, result>>

\* int maxDepth2 = maxTotalDepth - (int)path1.size()
maxDepth2(p1) == kMaxTotal - Len(p1)

\* Lines 523-525 and the head of the next iteration of the d2 loop: the
\* outermost searchPhase2 frame has returned false.
Phase2Loop ==
    /\ pc = "d2poll"
    /\ IF cancel \/ d2 + 1 > maxDepth2(path1)
       THEN Fail1 /\ UNCHANGED <<d2, path2, stack2>>
       ELSE /\ d2' = d2 + 1
            /\ path2' = << >>
            /\ stack2' = <<stack2[1]>>
            /\ pc' = "p2node"
            /\ UNCHANGED <<d1, cc, path1>>
    /\ UNCHANGED <<viewVars, prev, probe, onceVars,
                   callerVars, solves, cancel, nodes, depth, tablesBuilt,
                   start, outPhase2, result>>

SolveFoundOnCallerCube ==
    /\ pc = "found"
    /\ result' = path1 \o outPhase2
    /\ cube' = applyMoves(cube, path1 \o outPhase2)
    /\ pc' = "done"
    /\ UNCHANGED <<viewVars, prev, probe, onceVars,
                   nmoves, nset, solves, cancel, nodes, depth, tablesBuilt,
                   searchVars>>

\* Lines 592-596: searchPhase1 has returned true.
SolveFound ==
    /\ pc = "found"
    /\ result' = path1 \o outPhase2
    /\ pc' = "done"
    /\ UNCHANGED <<viewVars, prev, probe, onceVars,
                   callerVars, solves, cancel, nodes, depth, tablesBuilt,
                   searchVars>>

Solver ==
    \/ Cancel
    \/ Collect
    \/ SolveEntry
    \/ SolveTables
    \/ SolveD1
    \/ Phase1Node
    \/ Phase2Node
    \/ Phase2Loop
    \/ SolveFound

\* The solver on scrambled cubes and on arrays installed with setState.
Next ==
    \/ Reset
    \/ \E seq \in ScrambleSeqs : Scramble(seq)
    \/ \E p \in SwapPairs : SetState(p[1], p[2])
    \/ Solver

Spec == Init /\ [][Next]_vars

\* The cube alone: every sequence of at most MaxMoves moves.
NextCube ==
    \/ Reset
    \/ \E m \in Moves : ApplyMove(m)
    \/ \E seq \in ScrambleSeqs : Scramble(seq)

SpecCube == Init /\ [][NextCube]_vars

\* The cube alone, on arrays moves cannot produce as well: setState
\* installs, once, an array with two facelets exchanged (U8-F0, U4-D4)
\* before the moves are made.
ArraySwaps == { <<8, 36>>, <<4, 13>> }

NextArrays ==
    \/ NextCube
    \/ \E p \in ArraySwaps : nmoves = 0 /\ nset = 0 /\ SetState(p[1], p[2])

SpecArrays == Init /\ [][NextArrays]_vars

\* Uncancelled calls of solve, MaxSolves of them on the same scrambled cube:
\* the caller keeps what the previous call returned.
\* R; R F; R U; L D' F' R'.
RepeatSeqs == { <<9>>, <<9, 12>>, <<9, 0>>, <<6, 4, 13, 10>> }

NextRepeat ==
    \/ \E seq \in RepeatSeqs : Scramble(seq)
    \/ CollectKeep
    \/ SolveEntry
    \/ SolveTables
    \/ SolveD1
    \/ Phase1Node
    \/ Phase2Node
    \/ Phase2Loop
    \/ SolveFound

SpecRepeat == Init /\ [][NextRepeat]_vars

\* One call of a decoder on the coordinate x, followed by the encoder on
\* the array it returns.
DecodeEncode(fn, x) ==
    /\ probe.fn = "none"
    /\ \E a \in {CASE fn = "co" -> cornerOriFromCoord(x)
                   [] fn = "eo" -> edgeOriFromCoord(x)
                   [] fn = "slice" -> sliceFromCoord(x)
                   [] fn = "cp" -> perm8FromCoord(x)
                   [] fn = "sp" -> perm4FromCoord(x)} :
          probe' = [fn |-> fn, in |-> x, arr |-> a,
                    out |-> CASE fn = "co" -> cornerOriCoord(a)
                              [] fn = "eo" -> edgeOriCoord(a)
                              [] fn = "slice" -> sliceCoord(a)
                              [] fn = "cp" -> perm8Coord(a)
                              [] fn = "sp" -> perm4Coord(a)]
    /\ UNCHANGED <<viewVars, callerVars, solves, cancel, nodes, depth, tablesBuilt, pc,
                   searchVars, result, prev, onceVars>>

\* One call of sliceCoord on an edge permutation whose slice edges (8..11)
\* are at the positions P, followed by sliceFromCoord on its result.
EncodeDecode(P) ==
    /\ probe.fn = "none"
    /\ \E ep \in {[i \in 0..11 |->
                     IF i \in P
                     THEN 8 + Cardinality({j \in P : j < i})
                     ELSE Cardinality({j \in (0..11) \ P : j < i})]} :
          probe' = [fn |-> "placement", in |-> ep,
                    arr |-> sliceFromCoord(sliceCoord(ep)),
                    out |-> sliceCoord(ep)]
    /\ UNCHANGED <<viewVars, callerVars, solves, cancel, nodes, depth, tablesBuilt, pc,
                   searchVars, result, prev, onceVars>>

\* The codec on the whole of its ranges and on the 495 placements, one
\* call in a behaviour.
NextCodec ==
    /\ probe.fn = "none"
    /\ \/ \E x \in 0..(kCO - 1) : DecodeEncode("co", x)
       \/ \E x \in 0..(kEO - 1) : DecodeEncode("eo", x)
       \/ \E x \in 0..(kSLICE - 1) : DecodeEncode("slice", x)
       \/ \E x \in 0..(kCP - 1) : DecodeEncode("cp", x)
       \/ \E x \in 0..(kSP - 1) : DecodeEncode("sp", x)
       \/ \E P \in {Q \in SUBSET (0..11) : Cardinality(Q) = 4} :
              EncodeDecode(P)

SpecCodec == Init /\ [][NextCodec]_vars

(***************************************************************************)
(* tables(): std::call_once(g_tablesOnce, [] { g_tables.init(); })        *)
(***************************************************************************)
\* Tables::init fills, in this order, the move effects, the phase-1 move
\* tables, the phase-2 move tables and the pruning tables.
kInitStages == 4

\* Lines 557-568: a thread enters solve with an unsolved, solvable cube and
\* no cancellation, and arrives at the call of tables().
Enter(t) ==
    /\ tpc[t] = "start"
    /\ tpc' = [tpc EXCEPT ![t] = "once"]
    /\ UNCHANGED <<viewVars, callerVars, solves, cancel, nodes, depth, pc, searchVars,
                   result, prev, probe, tablesBuilt, onceFlag, initRuns,
                   written>>

\* std::call_once that returns while another thread's execution of the
\* callable is still active.
CallOnceNoWait(t) ==
    /\ tpc[t] = "once"
    /\ IF onceFlag = "unset"
       THEN /\ onceFlag' = "running"
            /\ initRuns' = initRuns + 1
            /\ tpc' = [tpc EXCEPT ![t] = "init"]
       ELSE /\ tpc' = [tpc EXCEPT ![t] = "search"]
            /\ UNCHANGED <<onceFlag, initRuns>>
    /\ UNCHANGED <<viewVars, callerVars, solves, cancel, nodes, depth, pc, searchVars,
                   result, prev, probe, tablesBuilt, written>>

\* Line 451, std::call_once: the first thread to arrive executes the
\* callable; a thread that arrives during that execution waits for it to
\* return; a thread that arrives afterwards returns at once.
CallOnce(t) ==
    /\ tpc[t] = "once"
    /\ onceFlag # "running"
    /\ IF onceFlag = "unset"
       THEN /\ onceFlag' = "running"
            /\ initRuns' = initRuns + 1
            /\ tpc' = [tpc EXCEPT ![t] = "init"]
       ELSE /\ tpc' = [tpc EXCEPT ![t] = "search"]
            /\ UNCHANGED <<onceFlag, initRuns>>
    /\ UNCHANGED <<viewVars, callerVars, solves, cancel, nodes, depth, pc, searchVars,
                   result, prev, probe, tablesBuilt, written>>

\* Tables::init, one stage: the executing thread writes the next group of
\* tables.
InitStage(t) ==
    /\ tpc[t] = "init"
    /\ written < kInitStages
    /\ written' = written + 1
    /\ UNCHANGED <<viewVars, callerVars, solves, cancel, nodes, depth, pc, searchVars,
                   result, prev, probe, tablesBuilt, onceFlag, initRuns,
                   tpc>>

\* Tables::init returns: call_once sets the flag and releases the waiting
\* threads; tables() returns g_tables to the executing thread.
InitDone(t) ==
    /\ tpc[t] = "init"
    /\ written = kInitStages
    /\ onceFlag' = "done"
    /\ tablesBuilt' = TRUE
    /\ tpc' = [tpc EXCEPT ![t] = "search"]
    /\ UNCHANGED <<viewVars, callerVars, solves, cancel, nodes, depth, pc, searchVars,
                   result, prev, probe, initRuns, written>>

\* Lines 500-504 and 471-475: the thread's search reads table entries.
ReadTable(t) ==
    /\ tpc[t] = "search"
    /\ tpc' = [tpc EXCEPT ![t] = "read"]
    /\ UNCHANGED <<viewVars, callerVars, solves, cancel, nodes, depth, pc, searchVars,
                   result, prev, probe, tablesBuilt, onceFlag, initRuns,
                   written>>

\* NumThreads threads racing the first solve of the process.
NextOnce ==
    \E t \in Threads :
        \/ Enter(t)
        \/ CallOnce(t)
        \/ InitStage(t)
        \/ InitDone(t)
        \/ ReadTable(t)

SpecOnce == Init /\ [][NextOnce]_vars

\* The solver on the solved cube with two facelets exchanged.
NextSwap ==
    \/ \E i, j \in 0..53 : i < j /\ cube = ResetState /\ SetState(i, j)
    \/ Solver

SpecSwap == Init /\ [][NextSwap]_vars

(***************************************************************************)
(* Renderer: the event loop of the viewer and its background solve, with   *)
(* the move keys, the solve key and the cancel request as its events.  The *)
(* solver actions above are the thread std::async starts; between          *)
(* requestSolve and the collection of the result these events leave the    *)
(* cube alone, so the thread's copy `work` is the cube itself.             *)
(***************************************************************************)
\* Move keys pressed in the viewer (U, R), at most MaxKeys of them.
MaxKeys == 2
KeyMoves == {0, 9}

\* solveFuture_.valid() && wait_for(0) != ready
solveRunning == solveFuture_ = "valid" /\ pc # "done"

\* the guard of queueMove: no solve is in progress
queueMoveGuard == ~solveRunning

\* A move key handled by glfwPollEvents: Renderer::queueMove.
KeyMove(m) ==
    /\ nkeys < MaxKeys
    /\ nkeys' = nkeys + 1
    /\ moveQueue_' = IF queueMoveGuard THEN Append(moveQueue_, m)
                     ELSE moveQueue_
    /\ UNCHANGED <<currentAnim_, solveFuture_, solveStartState_,
                   prev, probe, onceVars, callerVars, solves, cancel, nodes,
                   depth, tablesBuilt, pc, searchVars, result>>

\* the early returns of requestSolve
requestSolveRejected ==
    \/ ~isSolvable(cube)
    \/ currentAnim_ # kNoAnim \/ moveQueue_ # << >>
    \/ solveRunning

\* The enter key: Renderer::requestSolve.  A result that is ready and not
\* collected yet is dropped with the future it belongs to.
requestSolve ==
    /\ solves < MaxSolves
    /\ ~requestSolveRejected
    /\ cancel' = FALSE
    /\ nodes' = 0
    /\ depth' = 0
    /\ solveStartState_' = cube
    /\ solveFuture_' = "valid"
    /\ pc' = "idle"
    /\ result' = << >>
    /\ start' = solvedCubie
    /\ d1' = 0
    /\ cc' = solvedCubie
    /\ path1' = << >>
    /\ d2' = 0
    /\ path2' = << >>
    /\ stack2' = << >>
    /\ outPhase2' = << >>
    /\ UNCHANGED <<moveQueue_, currentAnim_, nkeys,
                   prev, probe, onceVars, callerVars, solves, tablesBuilt>>

\* The thread started by std::async calls solveFunc_.
SolveCall ==
    /\ solveFuture_ = "valid"
    /\ SolveEntry

\* Renderer::requestCancelSolve
requestCancelSolve ==
    /\ solveRunning
    /\ Cancel

\* One frame of Renderer::run after glfwPollEvents: the completion block,
\* then the animation update.  finish: the animation reaches its duration
\* in this frame.
Frame(finish) ==
    LET ready == solveFuture_ = "valid" /\ pc = "done"
        cubeUnchanged == cube = solveStartState_
        queued ==
            IF ready /\ cubeUnchanged /\ ~cancel /\ result # << >>
            THEN moveQueue_ \o result
            ELSE moveQueue_
    IN  /\ IF ready
           THEN /\ solveFuture_' = "invalid"
                /\ pc' = "idle"
                /\ result' = << >>
                /\ start' = solvedCubie
                /\ d1' = 0
                /\ cc' = solvedCubie
                /\ path1' = << >>
                /\ d2' = 0
                /\ path2' = << >>
                /\ stack2' = << >>
                /\ outPhase2' = << >>
           ELSE UNCHANGED <<solveFuture_, pc, result, searchVars>>
        /\ IF currentAnim_ # kNoAnim
           THEN /\ cube' = IF finish THEN applyMove(cube, currentAnim_)
                           ELSE cube
                /\ currentAnim_' = IF finish THEN kNoAnim ELSE currentAnim_
                /\ moveQueue_' = queued
           ELSE /\ currentAnim_' = IF queued # << >> THEN Head(queued)
                                   ELSE kNoAnim
                /\ moveQueue_' = IF queued # << >> THEN Tail(queued)
                                 ELSE queued
                /\ UNCHANGED cube
        /\ UNCHANGED <<solveStartState_, nkeys, nmoves, nset,
                       prev, probe, onceVars, solves, cancel, nodes, depth,
                       tablesBuilt>>

NextViewer ==
    \/ \E m \in KeyMoves : KeyMove(m)
    \/ requestSolve
    \/ requestCancelSolve
    \/ \E finish \in BOOLEAN : Frame(finish)
    \/ SolveCall
    \/ SolveTables
    \/ SolveD1
    \/ Phase1Node
    \/ Phase2Node
    \/ Phase2Loop
    \/ SolveFound

SpecViewer == Init /\ [][NextViewer]_vars

(***************************************************************************)
(* Properties                                                              *)
(***************************************************************************)
\* The cube was produced by moves alone: no setState call was made.
ByMovesOnly == nset = 0

\* C1: for a cube reached from the reset state by moves, solve called
\* without cancellation returns a sequence that, applied to that cube with
\* applyMove, leaves it solved.
C1_SolveSolves ==
    (pc = "done" /\ ~cancel /\ ByMovesOnly)
        => isSolved(applyMoves(cube, result))

\* C2: whatever the input and the cancellation, the solver works with a
\* phase-1 path of length at most d1 <= kMaxPhase1 (exactly d1 once phase 2
\* runs), a phase-2 path of length at most d2 <= kMaxTotal - d1, and what it
\* returns is empty or the two paths joined, of at most kMaxTotal moves.
C2_LengthBound ==
    /\ pc \in {"p1node", "p2node", "d2poll", "found"}
          => d1 <= kMaxPhase1 /\ Len(path1) <= d1
    /\ pc \in {"p2node", "d2poll", "found"}
          => /\ Len(path1) = d1
             /\ d2 <= kMaxTotal - d1
             /\ Len(path2) <= d2
    /\ pc = "found" => Len(outPhase2) = d2
    /\ pc = "done"
          => \/ result = << >>
             \/ /\ result = path1 \o outPhase2
                /\ Len(path1) = d1 /\ d1 <= kMaxPhase1
                /\ Len(outPhase2) <= kMaxTotal - d1
                /\ Len(result) <= kMaxTotal

C2_Witness ==
    pc = "done" /\ Len(result) = 3 /\ d1 = 2 /\ Len(outPhase2) = 1

\* A step of solve: its entry, or any step taken while the call runs.
SolveStep == solves' = solves + 1 \/ pc # "idle"

\* C3: no step of solve, from its entry to its return, changes the caller's
\* facelet array.
C3_CubeUntouched == [][SolveStep => cube' = cube]_vars

C3_Witness ==
    pc = "done" /\ result # << >> /\ ~isSolved(cube)
        /\ isSolved(applyMoves(cube, result))

\* C4 as stated: a solve that returns while the cancel flag is set returns
\* the empty sequence.
C4_CancelledIsEmpty == (pc = "done" /\ cancel) => result = << >>

\* C4 amended: when the flag is set before a poll of the solver (at the
\* entry of solve, at the head of the d1 loop, at the entry of searchPhase1
\* or searchPhase2, or in the d2 loop), the search finds nothing from then
\* on and the call returns the empty sequence.
C4_CancelBeforePoll ==
    [][(cancel /\ pc \in {"idle", "tables", "d1loop", "p1node", "p2node",
                          "d2poll"})
          => (pc' # "found" /\ (pc' = "done" => result' = << >>))]_vars

C4_Witness ==
    pc = "done" /\ cancel /\ result = << >> /\ nodes > 0 /\ d1 > 0

\* The facelet array is one the moves can produce: the centres are at home,
\* every corner position holds the three colours of a corner in their
\* cyclic order, every edge position the two colours of an edge, each piece
\* occurs once, the twists sum to 0 mod 3, the flips to 0 mod 2 and the two
\* permutations have the same parity.
CentresHome(s) == \A f \in 0..5 : s[I(f, 4)] = kFaceColor[f + 1]

CornerInCyclicOrder(s, pos) ==
    \E c \in 1..8 : \E r \in 0..2 : \A k \in 0..2 :
        s[cornerFacelets[pos + 1][k + 1]] = cornerColors[c][((k + r) % 3) + 1]

InCubeGroup(s) ==
    /\ CentresHome(s)
    /\ \A pos \in 0..7 : CornerInCyclicOrder(s, pos)
    /\ \A pos \in 0..11 : getEdgePermutation(s, pos) >= 0
    /\ {getCornerPermutation(s, pos) : pos \in 0..7} = 0..7
    /\ {getEdgePermutation(s, pos) : pos \in 0..11} = 0..11
    /\ SumUpTo([pos \in 0..7 |-> getCornerOrientation(s, pos)], 7) % 3 = 0
    /\ SumUpTo([pos \in 0..11 |-> getEdgeOrientation(s, pos)], 11) % 2 = 0
    /\ parity([pos \in 0..7 |-> getCornerPermutation(s, pos)], 8)
          = parity([pos \in 0..11 |-> getEdgePermutation(s, pos)], 12)

\* C5: isSolvable is true of an installed array exactly when the moves can
\* produce that array from the reset array.
C5_SolvableIffReachable == isSolvable(cube) <=> InCubeGroup(cube)

\* C6: after any sequence of moves (and after scramble) the decoded corner
\* permutation is a permutation of 0..7, the decoded edge permutation one
\* of 0..11, the corner orientations sum to 0 mod 3, the edge orientations
\* to 0 mod 2, the two permutations have equal parity, and isSolvable holds.
C6_ReachableIsSolvable ==
    /\ {getCornerPermutation(cube, pos) : pos \in 0..7} = 0..7
    /\ {getEdgePermutation(cube, pos) : pos \in 0..11} = 0..11
    /\ SumUpTo([pos \in 0..7 |-> getCornerOrientation(cube, pos)], 7) % 3 = 0
    /\ SumUpTo([pos \in 0..11 |-> getEdgeOrientation(cube, pos)], 11) % 2 = 0
    /\ parity([pos \in 0..7 |-> getCornerPermutation(cube, pos)], 8)
          = parity([pos \in 0..11 |-> getEdgePermutation(cube, pos)], 12)
    /\ isSolvable(cube)

C6_Witness ==
    /\ nmoves = MaxMoves
    /\ \E pos \in 0..7 : getCornerPermutation(cube, pos) # pos
    /\ \E pos \in 0..7 : getCornerOrientation(cube, pos) # 0
    /\ \E pos \in 0..11 : getEdgeOrientation(cube, pos) # 0

\* The piece a facelet belongs to: a centre, a corner or an edge.
pieceOf(i) ==
    IF i % 9 = 4 THEN <<"centre", i \div 9>>
    ELSE IF \E c \in 1..8 : \E k \in 1..3 : cornerFacelets[c][k] = i
    THEN <<"corner",
           CHOOSE c \in 1..8 : \E k \in 1..3 : cornerFacelets[c][k] = i>>
    ELSE <<"edge",
           CHOOSE e \in 1..12 : \E k \in 1..2 : edgeFacelets[e][k] = i>>

\* C7: the solved cube with the (different) colours of two facelets of
\* different pieces exchanged is not solvable according to isSolvable, and
\* solve returns the empty sequence for it.
C7_SwapIsUnsolvable ==
    \A i, j \in 0..53 :
        (/\ i < j
         /\ pieceOf(i) # pieceOf(j)
         /\ ResetState[i] # ResetState[j]
         /\ cube = swapFacelets(ResetState, i, j))
            => /\ ~isSolvable(cube)
               /\ pc = "done" => result = << >>

\* C8: for an array isSolvable rejects, the entry of solve returns the
\* empty sequence at once: no cubie is extracted, no table built or read,
\* no search step made, and progress.nodes and progress.depth are left
\* as they were.
C8_UnsolvableGate ==
    [][(pc = "idle" /\ solves' = solves + 1 /\ ~isSolvable(cube))
          => /\ pc' = "done"
             /\ result' = << >>
             /\ UNCHANGED <<nodes, depth, tablesBuilt, searchVars>>]_vars

C8_Witness ==
    pc = "done" /\ ~isSolvable(cube) /\ result = << >> /\ nodes > 0
        /\ ~cancel

\* C9: for a cube that satisfies isSolved, the entry of solve returns the
\* empty sequence.
C9_SolvedIsEmpty ==
    [][(pc = "idle" /\ solves' = solves + 1 /\ isSolved(cube))
          => (pc' = "done" /\ result' = << >>)]_vars

C9_Witness ==
    pc = "done" /\ isSolved(cube) /\ result = << >> /\ ~cancel
        /\ nmoves > 0

\* C10: after any sequence of moves each of the six colours is on exactly
\* nine facelets and the centre of each face holds the face's home colour.
C10_ColoursAndCentres ==
    /\ \A c \in Colors : ColorCount(cube, c) = 9
    /\ \A f \in 0..5 : cube[I(f, 4)] = kFaceColor[f + 1]

C10_Witness ==
    /\ nmoves = MaxMoves
    /\ cube # ResetState
    /\ \E f \in 0..5 : \E k \in 0..8 : cube[I(f, k)] # kFaceColor[f + 1]

\* C11: on every facelet array, a move followed by its inverseMove leaves
\* the array as it was; inverseMove exchanges the clockwise and the
\* counter-clockwise turn of a face and maps a half turn to itself.
C11_MoveThenInverse ==
    \A m \in Moves :
        /\ applyMove(applyMove(cube, m), inverseMove(m)) = cube
        /\ inverseMove(m) \div 3 = m \div 3
        /\ m % 3 = 0 => inverseMove(m) = m + 1
        /\ m % 3 = 1 => inverseMove(m) = m - 1
        /\ m % 3 = 2 => inverseMove(m) = m

C11_Witness ==
    /\ nset > 0 /\ nmoves = MaxMoves /\ ~isSolvable(cube)
    /\ \A m \in Moves : applyMove(cube, m) # cube

\* C12: on every facelet array, a quarter turn (clockwise or
\* counter-clockwise) made four times, and a half turn made twice, give
\* back the array.
C12_Period ==
    \A m \in Moves :
        IF m % 3 = 2
        THEN applyMove(applyMove(cube, m), m) = cube
        ELSE applyMove(applyMove(applyMove(applyMove(cube, m), m), m), m)
                 = cube

C12_Witness ==
    /\ nset > 0 /\ nmoves = MaxMoves /\ ~isSolvable(cube)
    /\ \E m \in Moves :
          m % 3 = 0 /\ applyMove(applyMove(cube, m), m) # cube

\* The array whose facelet i carries the label i.
Labelled == [i \in 0..53 |-> i]

\* The reference model sends each position to one position, and applyMove
\* sends it to the same one.
SamePermutation ==
    \A m \in Moves :
        /\ \A j \in 0..53 : Cardinality(physicalSources[m][j]) = 1
        /\ \A i \in 0..53 : applyMove(Labelled, m)[physicalTarget(m, i)] = i

\* C13: for each of the 18 moves, applyMove moves the 54 facelet positions
\* exactly as the geometric reference model does (the label of every
\* position ends at the same index), and so the two agree on every array.
C13_MatchesPhysical ==
    /\ SamePermutation
    /\ \A m \in Moves : applyMove(cube, m) = applyMovePhysical(cube, m)

C13_Witness ==
    /\ nset > 0 /\ nmoves = MaxMoves /\ ~isSolvable(cube)
    /\ \A m \in Moves : applyMovePhysical(cube, m) # cube

\* C14: in every state reached from the reset state by moves, each of the
\* six coordinates is in its declared range, as the solver computes it
\* from the cubie cube and as the Cube methods compute it; in particular
\* sliceCoord and udSliceCoord are at most 494.
C14_CoordRanges ==
    LET c == toCubie(cube)
    IN  /\ cornerOriCoord(c.co) \in 0..(kCO - 1)
        /\ edgeOriCoord(c.eo) \in 0..(kEO - 1)
        /\ sliceCoord(c.ep) \in 0..(kSLICE - 1)
        /\ perm8Coord(c.cp) \in 0..(kCP - 1)
        /\ cornerOrientationCoord(cube) \in 0..(kCO - 1)
        /\ edgeOrientationCoord(cube) \in 0..(kEO - 1)
        /\ udSliceCoord(cube) \in 0..(kSLICE - 1)
        /\ cornerPermutationCoord(cube) \in 0..(kCP - 1)
        /\ phase2EdgePermutationCoord(cube) \in 0..(kEP - 1)
        /\ udSlicePermutationCoord(cube) \in 0..(kSP - 1)

\* The positions of an edge permutation that hold slice edges.
SlicePositions(ep) == {i \in 0..11 : ep[i] >= 8}

\* C15: sliceCoord(sliceFromCoord(x)) = x for every x in 0..494, and for
\* every edge permutation ep the array sliceFromCoord(sliceCoord(ep)) has
\* its slice edges at the positions where ep has them.
C15_SliceRoundTrip ==
    /\ probe.fn = "slice" => probe.out = probe.in
    /\ probe.fn = "placement"
          => SlicePositions(probe.arr) = SlicePositions(probe.in)

\* C16: for x over the whole range of the coordinate, the encoder applied
\* to the decoded array gives x back; the decoded corner orientations sum
\* to 0 mod 3, the decoded edge orientations to 0 mod 2, and the decoded
\* permutations are permutations of 0..7 and of 0..3.
C16_OtherRoundTrips ==
    /\ probe.fn \in {"co", "eo", "cp", "sp"} => probe.out = probe.in
    /\ probe.fn = "co"
          => /\ DOMAIN probe.arr = 0..7
             /\ \A i \in 0..7 : probe.arr[i] \in 0..2
             /\ SumUpTo(probe.arr, 7) % 3 = 0
    /\ probe.fn = "eo"
          => /\ DOMAIN probe.arr = 0..11
             /\ \A i \in 0..11 : probe.arr[i] \in 0..1
             /\ SumUpTo(probe.arr, 11) % 2 = 0
    /\ probe.fn = "cp"
          => DOMAIN probe.arr = 0..7 /\ {probe.arr[i] : i \in 0..7} = 0..7
    /\ probe.fn = "sp"
          => DOMAIN probe.arr = 0..3 /\ {probe.arr[i] : i \in 0..3} = 0..3

C16_Witness ==
    /\ probe.fn = "cp" /\ probe.in = kCP - 1 /\ probe.out = kCP - 1
    /\ probe.arr[0] = 7 /\ probe.arr[7] = 0

\* The six coordinates as the Cube methods compute them and as the solver
\* computes them from toCubie.
CubeCoords(s) ==
    <<cornerOrientationCoord(s), edgeOrientationCoord(s), udSliceCoord(s),
      cornerPermutationCoord(s), phase2EdgePermutationCoord(s),
      udSlicePermutationCoord(s)>>

SolverCoords(s) ==
    LET c == toCubie(s)
    IN  <<cornerOriCoord(c.co), edgeOriCoord(c.eo), sliceCoord(c.ep),
          perm8Coord(c.cp), edgePermCoord8_fromEp(c.ep),
          slicePermCoord_fromEp(c.ep)>>

\* C17: in every state reached from the reset state by moves, isSolved is
\* true exactly when CO, EO, SLICE, CP, EP and SP are all 0; they are all 0
\* on the reset cube.
C17_SolvedIffZero ==
    /\ isSolved(cube) <=> CubeCoords(cube) = <<0, 0, 0, 0, 0, 0>>
    /\ isSolved(cube) <=> SolverCoords(cube) = <<0, 0, 0, 0, 0, 0>>
    /\ CubeCoords(ResetState) = <<0, 0, 0, 0, 0, 0>>

C17_Witness ==
    /\ nmoves = MaxMoves /\ ~isSolved(cube)
    /\ CubeCoords(cube)[1] = 0 /\ CubeCoords(cube)[2] = 0
    /\ CubeCoords(cube)[3] = 0 /\ CubeCoords(cube)[4] # 0
    /\ CubeCoords(cube)[5] # 0 /\ CubeCoords(cube)[6] = 0

\* C18: two uncancelled calls of solve on the same facelet array return the
\* same move sequence, the first call of the process and a later one alike.
C18_SameArraySameResult ==
    (pc = "done" /\ ~cancel /\ prev.cube = cube) => result = prev.result

\* The same, on the cubes whose table reads stay inside the vectors.
C18_InBounds ==
    sliceCoord(toCubie(cube).ep) < kSLICE => C18_SameArraySameResult

\* Longest move sequences compared with the depth the d1 loop has reached.
MaxShort == 2

\* C19: the phase-1 part of the sequence an uncancelled solve returns has
\* the smallest length d1 for which some move sequence of that length
\* brings the state into G1 (CO = EO = SLICE = 0) and admits a phase-2
\* completion within the total bound.  So the d1 loop never goes past a
\* depth k for which such a sequence exists: here one of at most MaxShort
\* moves whose completion is at most one phase-2 move.
C19_ShortestPhase1 ==
    (pc = "d1loop" /\ ~cancel) =>
        LET inG1(c) ==
                /\ cornerOriCoord(c.co) = 0
                /\ edgeOriCoord(c.eo) = 0
                /\ sliceCoord(c.ep) = 0
            completes(c) ==
                \/ c = solvedCubie
                \/ \E mi \in 1..kNumPhase2Moves :
                       Tables_applyMove(c, kPhase2Moves[mi]) = solvedCubie
            RECURSIVE after(_)
            after(k) ==
                IF k = 0 THEN {start}
                ELSE {Tables_applyMove(c, m) : c \in after(k - 1), m \in Moves}
            passedDepth == IF d1 - 1 < MaxShort THEN d1 - 1 ELSE MaxShort
        IN  \A k \in 0..passedDepth :
                \A c \in after(k) : ~(inG1(c) /\ completes(c))

\* C20: when the threads race the first solve, Tables::init is executed
\* exactly once, no thread reads a table entry before that execution has
\* completed, and the tables are not written after it has completed.
C20_InitOnceBeforeReads ==
    /\ [](/\ initRuns <= 1
          /\ onceFlag = "done" => initRuns = 1 /\ written = kInitStages
          /\ \A t \in Threads :
                 tpc[t] \in {"search", "read"} => onceFlag = "done")
    /\ [][onceFlag = "done" => written' = written]_vars

C20_Witness ==
    /\ \A t \in Threads : tpc[t] = "read"
    /\ onceFlag = "done" /\ initRuns = 1 /\ written = kInitStages

\* A solve is between its early exits and its return.
Solving == pc \notin {"idle", "done"}

\* An outer iteration of solve is running: searchPhase1 has been called and
\* has not returned to solve.
InIteration == pc \in {"p1node", "p2node", "d2poll", "found"}

\* C21: during a solve that passes the early exits progress.depth is -1
\* only while the tables are being built on the first solve of the
\* process; afterwards it is the d1 of the running outer iteration, so it
\* never decreases within the solve and stays in 0..12.
C21_MinusOneOnlyFirstBuild ==
    /\ [](Solving =>
            /\ depth = -1 => ~tablesBuilt
            /\ depth # -1 => depth \in 0..kMaxPhase1
            /\ InIteration => depth = d1)
    /\ [][Solving /\ Solving' => depth' >= depth]_vars

\* C21 as amended: progress.depth is -1 exactly from the store at the entry
\* of solve until tables() has returned, on the first solve and on every
\* later one; the rest as stated.
C21_MinusOneUntilTablesReturn ==
    /\ [](Solving =>
            /\ depth = -1 <=> pc = "tables"
            /\ depth # -1 => depth \in 0..kMaxPhase1
            /\ InIteration => depth = d1)
    /\ [][Solving /\ Solving' => depth' >= depth]_vars

C21_Witness ==
    /\ pc = "p1node" /\ tablesBuilt /\ solves = MaxSolves
    /\ d1 = 2 /\ depth = d1 /\ ~cancel

\* Moves the loops of the pending frames of a search have not tried yet:
\* frame i of path made the move path[i] after the move before it, and its
\* loop goes on with the greater moves of S that moveAllowedPrune admits.
UntriedMoves(path, S) ==
    Cardinality({ f \in (1..Len(path)) \X S :
                    /\ f[2] > path[f[1]]
                    /\ moveAllowedPrune(f[2], IF f[1] = 1 THEN -1
                                              ELSE path[f[1] - 1]) })

Untried ==
    UntriedMoves(path1, Moves)
    + UntriedMoves(path2, {kPhase2Moves[i] : i \in 1..kNumPhase2Moves})

\* C22: once cancel is set and stays set, every step of a running solve
\* leaves progress.nodes alone (each searchPhase1 and searchPhase2
\* invocation returns false at its poll), starts no iteration of the d2 loop
\* and none of the d1 loop, and leads to a further invocation only by
\* using up an untried move of a pending frame, so that at most Untried
\* further invocations are made; solve then returns the empty sequence or,
\* from an invocation that had found the goal already, its solution.
C22_CancelStopsSearch ==
    [][(cancel /\ cancel' /\ Solving) =>
          /\ nodes' = nodes
          /\ d2' = d2
          /\ pc # "tables" => depth' = depth
          /\ pc' \in {"p1node", "p2node"} => Untried' < Untried
          /\ pc = "tables" => pc' = "d1loop"
          /\ pc = "d1loop" => pc' = "done" /\ result' = << >>
          /\ pc = "p1node" => pc' \in {"p1node", "d1loop"}
          /\ pc = "p2node" => pc' \in {"p2node", "d2poll"}
          /\ pc = "d2poll" => pc' \in {"p1node", "d1loop"}
          /\ pc = "found" => pc' = "done"]_vars

\* cancel was set during a phase-1 search at depth 2 that has untried moves
\* left in two pending frames
C22_Witness ==
    /\ cancel /\ pc = "p1node" /\ nodes > 0
    /\ Len(path1) = 2 /\ Untried > 12

\* C23: the pruning values are admissible.  Where the root or an inner
\* invocation of searchPhase1 returns at `h > depth` on values read inside
\* pruneCoSlice and pruneEoSlice, no sequence of at most depth moves brings
\* its cubie cube into G1; where an invocation of searchPhase2 returns at
\* `h > depth` on values read inside pruneCpSp and pruneEpSp, no sequence
\* of at most depth phase-2 moves solves its cube.  Sequences of at most
\* MaxShort moves are compared.
C23_PruningAdmissible ==
    LET inG1(c) ==
            /\ cornerOriCoord(c.co) = 0
            /\ edgeOriCoord(c.eo) = 0
            /\ sliceCoord(c.ep) = 0
        RECURSIVE after(_, _, _)
        after(from, S, k) ==
            IF k = 0 THEN {from}
            ELSE LET inner == after(from, S, k - 1)
                 IN  inner \cup {Tables_applyMove(c, m) : c \in inner, m \in S}
        short(n) == IF n < MaxShort THEN n ELSE MaxShort
        phase2Moves == {kPhase2Moves[i] : i \in 1..kNumPhase2Moves}
    IN  /\ pc = "p1node" =>
              LET depthLeft == d1 - Len(path1)
                  co == cornerOriCoord(cc.co)
                  eo == edgeOriCoord(cc.eo)
                  sl == sliceCoord(cc.ep)
              IN  ( /\ sl < kSLICE
                    /\ pruned(pruneAt(pruneCoSlice, kCO * kSLICE,
                                      co * kSLICE + sl, depthLeft, MaxDepth1),
                              pruneAt(pruneEoSlice, kEO * kSLICE,
                                      eo * kSLICE + sl, depthLeft, MaxDepth1),
                              depthLeft) )
                  => \A c \in after(cc, Moves, short(depthLeft)) : ~inG1(c)
        /\ pc = "p2node" =>
              LET depthLeft == d2 - Len(path2)
                  top == Last(stack2)
                  at == toCubie(applyMoves(cube, path1 \o path2))
              IN  pruned(pruneAt(pruneCpSp, kCP * kSP,
                                 top[1] * kSP + top[3], depthLeft, MaxDepth2),
                         pruneAt(pruneEpSp, kEP * kSP,
                                 top[2] * kSP + top[3], depthLeft, MaxDepth2),
                         depthLeft)
                  => \A c \in after(at, phase2Moves, short(depthLeft)) :
                         c # solvedCubie

\* The cube is in G1: CO = EO = SLICE = 0.
InG1(s) ==
    \E c \in {toCubie(s)} :
        /\ cornerOriCoord(c.co) = 0
        /\ edgeOriCoord(c.eo) = 0
        /\ sliceCoord(c.ep) = 0

\* C24: each transition table gives the coordinate after the move.  For
\* the cube s at hand and every move m, with s after m by Cube::applyMove:
\* coMove[CO(s)][m] = CO(s after m), eoMove[EO(s)][m] = EO(s after m) and
\* sliceMove[SLICE(s)][m] = SLICE(s after m), the row SLICE(s) being one of
\* the kSLICE rows; and for s in G1 and every phase-2 move, the same for
\* cpMove, epMove and spMove.
C24_TablesFollowMoves ==
    LET c == toCubie(cube)
        co == cornerOriCoord(c.co)
        eo == edgeOriCoord(c.eo)
        sl == sliceCoord(c.ep)
    IN  /\ \A m \in Moves :
              LET t == toCubie(applyMove(cube, m))
              IN  /\ coMove(co, m) = cornerOriCoord(t.co)
                  /\ eoMove(eo, m) = edgeOriCoord(t.eo)
                  /\ sl < kSLICE
                  /\ sliceMove(sl, m) = sliceCoord(t.ep)
        /\ InG1(cube) =>
              \A mi \in 0..(kNumPhase2Moves - 1) :
                  LET t == toCubie(applyMove(cube, kPhase2Moves[mi + 1]))
                  IN  /\ cpMove(perm8Coord(c.cp), mi) = perm8Coord(t.cp)
                      /\ epMove(edgePermCoord8_fromEp(c.ep), mi)
                            = edgePermCoord8_fromEp(t.ep)
                      /\ spMove(slicePermCoord_fromEp(c.ep), mi)
                            = slicePermCoord_fromEp(t.ep)

\* C25: the cubie-level move agrees with the facelet engine.  For the cube
\* s at hand and every move m,
\* toCubie(Cube::applyMove(s, m)) = Tables::applyMove(toCubie(s), m).
C25_CubieMoveAgrees ==
    \A c \in {toCubie(cube)} :
        \A m \in Moves :
            toCubie(applyMove(cube, m)) = Tables_applyMove(c, m)

\* a cube two moves from the solved one with a twisted corner and a
\* flipped edge, on which the move F turns twisted pieces
C25_Witness ==
    /\ nmoves = MaxMoves /\ nset = 0
    /\ cornerOrientationCoord(cube) # 0 /\ edgeOrientationCoord(cube) # 0
    /\ toCubie(applyMove(cube, 12)).co # toCubie(cube).co
    /\ toCubie(applyMove(cube, 12)) = Tables_applyMove(toCubie(cube), 12)

\* C26: after the construction of the tables no cell the search indexes
\* holds 0xFF.  Every read of an invocation of searchPhase1 or
\* searchPhase2 yields a breadth-first distance, never kUnvisited; the
\* cells of value above MaxDepth1 or MaxDepth2, which the levels of the
\* fill carried that far do not decide, are left out.
C26_NoUnvisitedRead ==
    LET value(table, size, idx, radius) ==
            IF idx >= size THEN Bytes
            ELSE {d \in 0..radius : idx \in table[d]}
    IN  /\ pc = "p1node" =>
              LET co == cornerOriCoord(cc.co)
                  eo == edgeOriCoord(cc.eo)
                  sl == sliceCoord(cc.ep)
              IN  /\ kUnvisited \notin value(pruneCoSlice, kCO * kSLICE,
                                            co * kSLICE + sl, MaxDepth1)
                  /\ kUnvisited \notin value(pruneEoSlice, kEO * kSLICE,
                                            eo * kSLICE + sl, MaxDepth1)
        /\ pc = "p2node" =>
              LET top == Last(stack2)
              IN  /\ kUnvisited \notin value(pruneCpSp, kCP * kSP,
                                            top[1] * kSP + top[3], MaxDepth2)
                  /\ kUnvisited \notin value(pruneEpSp, kEP * kSP,
                                            top[2] * kSP + top[3], MaxDepth2)

\* C27: every table access is within bounds.  During the breadth-first
\* fill, once tables() has run it, every index nidx = na * sizeB + nb it
\* has written lies inside the vector (for the levels filled up to
\* MaxDepth1 and MaxDepth2), and during the
\* search CO * 495 + SLICE < 2187 * 495, EO * 495 + SLICE < 2048 * 495,
\* CP * 24 + SP < 40320 * 24 and EP * 24 + SP < 40320 * 24.
C27_AccessesInBounds ==
    /\ tablesBuilt =>
           /\ \A d \in 0..MaxDepth1 :
                  /\ \A idx \in coSliceLevels[d] : idx < kCO * kSLICE
                  /\ \A idx \in eoSliceLevels[d] : idx < kEO * kSLICE
           /\ \A d \in 0..MaxDepth2 :
                  /\ \A idx \in cpSpLevels[d] : idx < kCP * kSP
                  /\ \A idx \in epSpLevels[d] : idx < kEP * kSP
    /\ pc = "p1node" =>
           /\ cornerOriCoord(cc.co) * kSLICE + sliceCoord(cc.ep)
                 < kCO * kSLICE
           /\ edgeOriCoord(cc.eo) * kSLICE + sliceCoord(cc.ep)
                 < kEO * kSLICE
    /\ pc = "p2node" =>
           /\ Last(stack2)[1] * kSP + Last(stack2)[3] < kCP * kSP
           /\ Last(stack2)[2] * kSP + Last(stack2)[3] < kEP * kSP

\* C28: G1 is closed under the ten phase-2 moves.  A cube with
\* CO = EO = SLICE = 0 holds the edges 0..7 in the positions 0..7 and the
\* slice edges 8..11 in the positions 8..11, and each of U, U', U2, D, D',
\* D2, L2, R2, F2, B2 leads to a cube with CO = EO = SLICE = 0 again; so
\* every cube reached from the solved one by phase-2 moves is in G1.
C28_G1Closed ==
    InG1(cube) =>
        /\ \A c \in {toCubie(cube)} : \A i \in 0..11 : c.ep[i] < 8 <=> i < 8
        /\ \A mi \in 1..kNumPhase2Moves :
               InG1(applyMove(cube, kPhase2Moves[mi]))

\* the cube after U R2: in G1, not solved, corners and edges permuted
C28_Witness ==
    /\ cube = applyMoves(ResetState, <<0, 11>>)
    /\ nmoves = MaxMoves
    /\ InG1(cube) /\ ~isSolved(cube)
    /\ cornerPermutationCoord(cube) # 0
    /\ InG1(applyMove(cube, 17)) /\ ~InG1(applyMove(cube, 15))

\* C29: in every sequence solve returns no two consecutive moves turn the
\* same face, the last phase-1 move and the first phase-2 move included.
C29_NoSameFaceTwice ==
    pc = "done" =>
        \A i \in 1..(Len(result) - 1) :
            result[i] \div 3 # result[i + 1] \div 3

\* The frame at hand collects the result of a finished solve and appends
\* its moves to the queue.
SolutionAppended ==
    /\ solveFuture_ = "valid" /\ solveFuture_' = "invalid"
    /\ cube = solveStartState_ /\ ~cancel /\ result # << >>

\* C30: the moves of a finished background solve are appended to the move
\* queue only when the queue is empty and no animation is running, so that
\* the first solution move is applied to the cube the solve was started on.
C30_SolutionOnStartState ==
    [][SolutionAppended =>
          moveQueue_ = << >> /\ currentAnim_ = kNoAnim]_vars

====
